---- MODULE Spec2Model ----
(***************************************************************************)
(* A model of the Fantasy League Assistant API: the request validators     *)
(* (validators.py), the rate limiter and request logger (middleware.py),   *)
(* the chat and reset handlers (api_server.py), the function-calling       *)
(* assistant (fantasy_assistant.py), the health aggregation                *)
(* (health_checks.py) and the trade reconstruction (dynamic_queries.py).   *)
(***************************************************************************)
EXTENDS Integers, Sequences, FiniteSets, TLC

VARIABLES
    now,                 \* the wall clock read by datetime.now(), in ticks
    rate_limit_storage,  \* middleware.rate_limit_storage: rate key -> timestamps
    conversations,       \* api_server.conversations: session id -> history
    last,                \* the last HTTP request: what it carried, the response to it, how
                         \* it was produced, and what the request before it cleared
    exchanges,           \* per session id, since it was fresh: the exchanges the assistant
                         \* answered (-1 once one failed) and the message_count last reported
    call,                \* the library function applied last ("none" before any call)
    arg,                 \* the argument it was applied to
    ret                  \* what it returned

vars == <<now, rate_limit_storage, conversations, last, exchanges, call, arg, ret>>

(***************************************************************************)
(* Bounds of the model.                                                    *)
(***************************************************************************)
\* clock resolution: datetime.now() is finer than the whole seconds of Retry-After
TicksPerSecond == 2
\* the decorators' max_requests / window_seconds, scaled down from 30/60 (chat)
\* and 10/60 (reset): rate_limit is the same code for every parameter value
ChatMaxRequests == 3
ResetMaxRequests == 2
WindowSeconds == 1
\* leading / trailing whitespace characters tried on an input string
MaxPad == 1
\* how far around a length limit the input lengths range
Slack == 1
\* tool calls the LLM may request in one turn
MaxToolCalls == 1
\* longest stored history for which a further chat request is explored
MaxHistory == 3
\* roster ids of a league run from 1 to MaxRosters
MaxRosters == 3
\* most draft picks in one trade
MaxPicks == 1
\* most rows of the rosters table searched for a team
MaxTeams == 2
\* most rows of the matchups table of one week
MaxRows == 3
\* most data requirements the analysis of one question yields
MaxRequirements == 3
MaxLeagues == 2
MaxTrades == 1
MaxCalls == 2
RetryWindowSeconds == 2
MaxWorkers == 2

(***************************************************************************)
(* Program constants.                                                      *)
(***************************************************************************)
MessageMaxLength == 5000
SessionIdMaxLength == 100
ResetSessionIdMaxLength == 100

(***************************************************************************)
(* JSON values as the handlers see them.  A string is kept as the number   *)
(* of leading whitespace characters, its text between them (a name and a   *)
(* length; it starts and ends with a non-blank character) and the number   *)
(* of trailing whitespace characters.  An all-blank string has len = 0 and *)
(* its blanks counted in lead.                                             *)
(***************************************************************************)
Str(lead, text, len, trail) ==
    [kind |-> "str", lead |-> lead, text |-> text, len |-> len, trail |-> trail, num |-> 0]

Absent == [kind |-> "absent", lead |-> 0, text |-> "", len |-> 0, trail |-> 0, num |-> 0]
Null == [kind |-> "null", lead |-> 0, text |-> "", len |-> 0, trail |-> 0, num |-> 0]
Num(n) == [kind |-> "num", lead |-> 0, text |-> "", len |-> 0, trail |-> 0, num |-> n]

\* the literal "default" of validate_session_id and reset_conversation
DefaultSession == Str(0, "default", 7, 0)

\* len(value)
PyLen(v) == v.lead + v.len + v.trail

\* value.strip()
Strip(v) == [v EXCEPT !.lead = 0, !.trail = 0]

\* dict.get(key): a missing key and a JSON null both read as None
Get(v) == IF v.kind = "absent" THEN Null ELSE v

\* Python truthiness of a JSON scalar
Truthy(v) ==
    CASE v.kind = "str" -> PyLen(v) > 0
      [] v.kind = "num" -> v.num # 0
      [] OTHER -> FALSE

IsStr(v) == v.kind = "str"

(***************************************************************************)
(* validators.py                                                           *)
(***************************************************************************)
NoError == [text |-> "", name |-> "", n |-> 0]
NoField == "None"

\* ValidationError(message, field): the message is `name text n`
Invalid(text, name, n, field) ==
    [ok |-> FALSE, value |-> Null, error |-> [text |-> text, name |-> name, n |-> n],
     field |-> field]

Valid(v) == [ok |-> TRUE, value |-> v, error |-> NoError, field |-> NoField]

validate_string_unstripped(value, field_name, min_length, max_length) ==
    IF ~IsStr(value) THEN Invalid("must be a string", field_name, 0, field_name)
    ELSE IF ~Truthy(value) \/ ~Truthy(Strip(value))
        THEN Invalid("cannot be empty", field_name, 0, field_name)
    ELSE IF PyLen(value) < min_length
        THEN Invalid("must be at least", field_name, min_length, field_name)
    ELSE IF PyLen(value) > max_length
        THEN Invalid("must be at most", field_name, max_length, field_name)
    ELSE Valid(value)

validate_string(value, field_name, min_length, max_length) ==
    IF ~IsStr(value) THEN Invalid("must be a string", field_name, 0, field_name)
    ELSE IF ~Truthy(value) \/ ~Truthy(Strip(value))
        THEN Invalid("cannot be empty", field_name, 0, field_name)
    ELSE IF PyLen(value) < min_length
        THEN Invalid("must be at least", field_name, min_length, field_name)
    ELSE IF PyLen(value) > max_length
        THEN Invalid("must be at most", field_name, max_length, field_name)
    ELSE Valid(Strip(value))

validate_session_id(session_id) ==
    IF ~Truthy(session_id) THEN Valid(DefaultSession)
    ELSE validate_string(session_id, "session_id", 1, SessionIdMaxLength)

(***************************************************************************)
(* A request body as request.get_json(silent=True) returns it: None (no    *)
(* body or malformed JSON), a JSON object, or another JSON value (an       *)
(* array, a string, a number), which has no .get method.                   *)
(***************************************************************************)
NoBody == [kind |-> "none", message |-> Absent, session_id |-> Absent, extra |-> FALSE]
Object(message, session_id, extra) ==
    [kind |-> "object", message |-> message, session_id |-> session_id, extra |-> extra]
\* a non-object JSON value; extra says whether it is truthy ([1] against [])
NonObject(truthy) ==
    [kind |-> "other", message |-> Absent, session_id |-> Absent, extra |-> truthy]

\* truthiness of the parsed body
BodyTruthy(data) ==
    CASE data.kind = "none" -> FALSE
      [] data.kind = "object" ->
            data.message.kind # "absent" \/ data.session_id.kind # "absent" \/ data.extra
      [] OTHER -> data.extra

\* the outcome of a validator: a validated record, a ValidationError, or
\* another exception (AttributeError on a body without .get)
Raised == [ok |-> FALSE, raised |-> TRUE, message |-> Null, session_id |-> Null,
           error |-> NoError, field |-> NoField]
Rejected(r) == [ok |-> FALSE, raised |-> FALSE, message |-> Null, session_id |-> Null,
                error |-> r.error, field |-> r.field]
Validated(m, s) == [ok |-> TRUE, raised |-> FALSE, message |-> m, session_id |-> s,
                    error |-> NoError, field |-> NoField]

validate_chat_request(data) ==
    IF ~BodyTruthy(data)
        THEN Rejected(Invalid("Request body is required", "", 0, NoField))
    ELSE IF data.kind # "object" THEN Raised
    ELSE IF ~Truthy(Get(data.message))
        THEN Rejected(Invalid("Message is required", "", 0, "message"))
    ELSE LET m == validate_string(Get(data.message), "message", 1, MessageMaxLength)
         IN  IF ~m.ok THEN Rejected(m)
             ELSE LET s == validate_session_id(Get(data.session_id))
                  IN  IF ~s.ok THEN Rejected(s) ELSE Validated(m.value, s.value)

(***************************************************************************)
(* Inputs tried on the validators.                                         *)
(***************************************************************************)
Pads == 0..MaxPad

\* strings with the given core texts and core lengths, padded both sides
Strings(texts, lens) ==
    UNION {{Str(l, t, n, r) : l \in Pads, t \in texts, r \in (IF n = 0 THEN {0} ELSE Pads)} :
             n \in lens}

Around(limit) == (0..Slack) \cup ((limit - Slack)..(limit + Slack))

NonStrings == {Absent, Null, Num(0), Num(7)}

\* "x"*L and its padded variants, for L at both ends of the accepted range
MessageInputs == NonStrings \cup Strings({"x"}, Around(MessageMaxLength))
SessionIdInputs == NonStrings \cup Strings({"s"}, Around(SessionIdMaxLength))

ValidatorBodies ==
    {NoBody, NonObject(TRUE), NonObject(FALSE)}
    \cup {Object(m, s, e) : m \in MessageInputs, s \in SessionIdInputs, e \in BOOLEAN}

\* the state of the HTTP server while only library functions are exercised
ServerIdle ==
    UNCHANGED <<now, rate_limit_storage, conversations, last, exchanges>>

Call_validate_chat_request ==
    /\ call = "none"
    /\ \E data \in ValidatorBodies :
        /\ call' = "validate_chat_request"
        /\ arg' = data
        /\ ret' = validate_chat_request(data)
        /\ ServerIdle

Call_validate_session_id ==
    /\ call = "none"
    /\ \E v \in SessionIdInputs :
        /\ call' = "validate_session_id"
        /\ arg' = v
        /\ ret' = validate_session_id(Get(v))
        /\ ServerIdle

(***************************************************************************)
(* middleware.py: the sliding-window rate limiter.                         *)
(***************************************************************************)
Max(a, b) == IF a >= b THEN a ELSE b

\* timedelta(seconds=window_seconds) in clock ticks
WindowTicks(window_seconds) == window_seconds * TicksPerSecond

\* last reading of the clock that is explored: one second past a full window
MaxTime == WindowTicks(WindowSeconds) + TicksPerSecond

\* f"{key_prefix}:{client_ip}"
RateKey(key_prefix, client_ip) == <<key_prefix, client_ip>>

\* [req_time for req_time in bucket if req_time > cutoff_time]
Prune(bucket, cutoff_time) == SelectSeq(bucket, LAMBDA req_time : req_time > cutoff_time)

\* int((oldest_request + window - now).total_seconds()), then max(retry_after, 1)
RetryAfter(oldest_request, window_seconds, t) ==
    Max((oldest_request + WindowTicks(window_seconds) - t) \div TicksPerSecond, 1)

\* rate_limit with the threshold test off by one (> for >=)
rate_limit_off_by_one(storage, client_ip, t, max_requests, window_seconds, key_prefix) ==
    LET rate_key == RateKey(key_prefix, client_ip)
        kept == Prune(storage[rate_key], t - WindowTicks(window_seconds))
    IN  IF Len(kept) > max_requests
        THEN [admitted |-> FALSE,
              storage |-> [storage EXCEPT ![rate_key] = kept],
              retry_after |-> RetryAfter(kept[1], window_seconds, t)]
        ELSE [admitted |-> TRUE,
              storage |-> [storage EXCEPT ![rate_key] = Append(kept, t)],
              retry_after |-> 0]

\* rate_limit recording the rejected request as well
rate_limit_recording_rejected(storage, client_ip, t, max_requests, window_seconds, key_prefix) ==
    LET rate_key == RateKey(key_prefix, client_ip)
        kept == Prune(storage[rate_key], t - WindowTicks(window_seconds))
    IN  IF Len(kept) >= max_requests
        THEN [admitted |-> FALSE,
              storage |-> [storage EXCEPT ![rate_key] = Append(kept, t)],
              retry_after |-> RetryAfter(kept[1], window_seconds, t)]
        ELSE [admitted |-> TRUE,
              storage |-> [storage EXCEPT ![rate_key] = Append(kept, t)],
              retry_after |-> 0]

\* the limiter's part of rate_limit's wrapper, before the wrapped handler runs
rate_limit(storage, client_ip, t, max_requests, window_seconds, key_prefix) ==
    LET rate_key == RateKey(key_prefix, client_ip)
        kept == Prune(storage[rate_key], t - WindowTicks(window_seconds))
    IN  IF Len(kept) >= max_requests
        THEN [admitted |-> FALSE,
              storage |-> [storage EXCEPT ![rate_key] = kept],
              retry_after |-> RetryAfter(kept[1], window_seconds, t)]
        ELSE [admitted |-> TRUE,
              storage |-> [storage EXCEPT ![rate_key] = Append(kept, t)],
              retry_after |-> 0]

(***************************************************************************)
(* fantasy_assistant.py: one exchange of the function-calling assistant.   *)
(* What the LLM and the tools do is an input, `plan`: whether the first    *)
(* completion raises, answers, or requests ntools tool calls; which tool   *)
(* call raises (fail_at, 0 for none); whether the second completion raises.*)
(***************************************************************************)
Entry(role, obj, content, tool_call_id) ==
    [role |-> role, obj |-> obj, content |-> content, tool_call_id |-> tool_call_id]

SystemMessage == Entry("system", FALSE, Str(0, "SYSTEM_PROMPT", 1, 0), 0)
UserMessage(message) == Entry("user", FALSE, message, 0)
AssistantMessage == Entry("assistant", FALSE, Str(0, "answer", 1, 0), 0)
\* response_message itself: the client library's message object, not a dict
ToolRequestMessage == Entry("assistant", TRUE, Str(0, "tool_calls", 1, 0), 0)
ToolMessage(i) == Entry("tool", FALSE, Str(0, "function_response", 1, 0), i)

ToolMessages(k) == [i \in 1..k |-> ToolMessage(i)]

Plans ==
    {[first |-> "raise", ntools |-> 0, fail_at |-> 0, second |-> "answer"],
     [first |-> "answer", ntools |-> 0, fail_at |-> 0, second |-> "answer"]}
    \cup {[first |-> "tools", ntools |-> n, fail_at |-> 0, second |-> s] :
            n \in 1..MaxToolCalls, s \in {"raise", "answer"}}
    \cup {p \in {[first |-> "tools", ntools |-> n, fail_at |-> f, second |-> "answer"] :
                    n \in 1..MaxToolCalls, f \in 1..MaxToolCalls} : p.fail_at <= p.ntools}

\* conversation_history is None for a new session; a stored history is the
\* same list object that `conversations` holds, so every append is visible
\* in the store whether or not chat returns
chat(message, is_none, conversation_history, plan) ==
    LET h0 == IF is_none THEN <<SystemMessage>> ELSE conversation_history
        h1 == Append(h0, UserMessage(message))
        h2 == Append(h1, ToolRequestMessage)
        failed == plan.fail_at >= 1 /\ plan.fail_at <= plan.ntools
        h3 == h2 \o ToolMessages(IF failed THEN plan.fail_at - 1 ELSE plan.ntools)
    IN  CASE plan.first = "raise" -> [raised |-> TRUE, history |-> h1]
          [] plan.first = "answer" ->
                [raised |-> FALSE, history |-> Append(h1, AssistantMessage)]
          [] OTHER ->
                IF failed \/ plan.second = "raise"
                THEN [raised |-> TRUE, history |-> h3]
                ELSE [raised |-> FALSE, history |-> Append(h3, AssistantMessage)]

\* the caller takes the result and is ready for the next call
Return ==
    /\ call # "none"
    /\ call' = "none"
    /\ arg' = NoBody
    /\ ret' = Raised
    /\ ServerIdle

(***************************************************************************)
(* error_handlers.py and the shape of a response.                          *)
(***************************************************************************)
ErrorText(t) == [text |-> t, name |-> "", n |-> 0]

\* a JSON response: absent keys are has_field = FALSE, counts of -1 and
\* retry_after = 0 (the Retry-After header is sent with 429 only)
Response(status, error, has_field, field, session_id, message_count, messages_cleared, retry_after) ==
    [status |-> status, error |-> error, has_field |-> has_field, field |-> field,
     session_id |-> session_id, message_count |-> message_count,
     messages_cleared |-> messages_cleared, retry_after |-> retry_after]

NoResponse == Response(0, NoError, FALSE, NoField, Null, -1, -1, 0)

\* APIError(message, status_code)
NoException == [raised |-> FALSE, message |-> "", status_code |-> 0]
InternalServerError(message) == [raised |-> TRUE, message |-> message, status_code |-> 500]

\* @app.errorhandler(APIError): {error: message, status_code} at status_code
handle_api_error(error) ==
    Response(error.status_code, ErrorText(error.message), FALSE, NoField, Null, -1, -1, 0)

\* what a handler or a wrapper hands to its caller: a response or an
\* exception, the store as it leaves it, the functions entered on the way,
\* and what became of the assistant's call
Outcome(response, exception, store, gates, assistant) ==
    [response |-> response, exception |-> exception, conversations |-> store,
     gates |-> gates, assistant |-> assistant]

(***************************************************************************)
(* api_server.py: the chat handler.                                        *)
(***************************************************************************)
\* conversations[session_id] = updated_history
Put(store, session_id, history) ==
    [k \in (DOMAIN store) \cup {session_id} |->
        IF k = session_id THEN history ELSE store[k]]

\* sum(1 for msg in updated_history if msg.get("role") in ["user", "assistant"])
CountedRoles == {"user", "assistant"}
MessageCount(history) ==
    Cardinality({i \in DOMAIN history : history[i].role \in CountedRoles})

\* msg.get raises AttributeError on the client library's message object
HasNoGet(history) == \E i \in DOMAIN history : history[i].obj

chat_endpoint(store, validated_data, plan) ==
    LET session_id == validated_data.session_id
        present == session_id \in DOMAIN store
        r == chat(validated_data.message, ~present,
                  IF present THEN store[session_id] ELSE <<>>, plan)
        updated == Put(store, session_id, r.history)
        failure == InternalServerError("Failed to process chat message")
    IN  IF r.raised
        THEN Outcome(NoResponse, failure, IF present THEN updated ELSE store,
                     <<"chat_endpoint", "chat">>, "raised")
        ELSE IF HasNoGet(r.history)
        THEN Outcome(NoResponse, failure, updated, <<"chat_endpoint", "chat">>, "returned")
        ELSE Outcome(Response(200, NoError, FALSE, NoField, session_id,
                              MessageCount(r.history), -1, 0),
                     NoException, updated, <<"chat_endpoint", "chat">>, "returned")

(***************************************************************************)
(* validators.py: the validate_request(validate_chat_request) wrapper.     *)
(* Its try block holds the call of the wrapped handler as well.            *)
(***************************************************************************)
InvalidRequestData ==
    Response(400, ErrorText("Invalid request data"), FALSE, NoField, Null, -1, -1, 0)

validate_request(store, data, plan) ==
    LET v == validate_chat_request(data)
        h == chat_endpoint(store, v, plan)
    IN  IF v.ok
        THEN IF h.exception.raised
             THEN Outcome(InvalidRequestData, NoException, h.conversations,
                          <<"validate_request">> \o h.gates, h.assistant)
             ELSE Outcome(h.response, NoException, h.conversations,
                          <<"validate_request">> \o h.gates, h.assistant)
        ELSE IF v.raised
        THEN Outcome(InvalidRequestData, NoException, store, <<"validate_request">>, "not called")
        ELSE Outcome(Response(400, v.error, TRUE, v.field, Null, -1, -1, 0),
                     NoException, store, <<"validate_request">>, "not called")

\* middleware.request_logger: logs, runs the wrapped function, logs, returns
request_logger(inner) ==
    Outcome(inner.response, inner.exception, inner.conversations,
            <<"request_logger">> \o inner.gates, inner.assistant)

\* the 429 answer of rate_limit's wrapper
RateLimited(store, retry_after) ==
    Outcome(Response(429, ErrorText("Rate limit exceeded"), FALSE, NoField, Null, -1, -1,
                     retry_after),
            NoException, store, <<"rate_limit">>, "not called")

\* Flask: an exception that leaves the view function goes to its error handler
Dispatch(outcome) ==
    IF outcome.exception.raised THEN handle_api_error(outcome.exception)
    ELSE outcome.response

(***************************************************************************)
(* api_server.py: the reset handler.                                       *)
(***************************************************************************)
\* a reset that reports the count and leaves the history in the store
Remove_kept(store, session_id) == store

\* del conversations[session_id]
Remove(store, session_id) == [k \in (DOMAIN store) \ {session_id} |-> store[k]]

reset_conversation(store, body) ==
    LET failure == InternalServerError("Failed to reset conversation")
        \* data = request.get_json(silent=True) or {}
        data == IF BodyTruthy(body) THEN body ELSE Object(Absent, Absent, FALSE)
        \* data.get("session_id", "default")
        session_id == IF data.session_id.kind = "absent" THEN DefaultSession
                      ELSE data.session_id
        messages_cleared == IF session_id \in DOMAIN store THEN Len(store[session_id]) ELSE 0
    IN  IF data.kind # "object"
        THEN Outcome(NoResponse, failure, store, <<"reset_conversation">>, "not called")
        ELSE IF Truthy(session_id) /\ ~IsStr(session_id)
        THEN Outcome(Response(400, ErrorText("session_id must be a string"), FALSE, NoField,
                              Null, -1, -1, 0),
                     NoException, store, <<"reset_conversation">>, "not called")
        ELSE IF ~IsStr(session_id)   \* len() of None or of a number: TypeError
        THEN Outcome(NoResponse, failure, store, <<"reset_conversation">>, "not called")
        ELSE IF PyLen(session_id) > ResetSessionIdMaxLength
        THEN Outcome(Response(400, ErrorText("session_id too long (max 100 chars)"), FALSE,
                              NoField, Null, -1, -1, 0),
                     NoException, store, <<"reset_conversation">>, "not called")
        ELSE Outcome(Response(200, NoError, FALSE, NoField, session_id, -1,
                              messages_cleared, 0),
                     NoException, Remove(store, session_id), <<"reset_conversation">>,
                     "not called")

(***************************************************************************)
(* api_server.py: the routes, their decorators applied outermost first.    *)
(***************************************************************************)
Entered(gate, outcome) ==
    Outcome(outcome.response, outcome.exception, outcome.conversations,
            <<gate>> \o outcome.gates, outcome.assistant)

\* the chat route with the validator stacked outside the limiter
ChatRoute_validate_first(storage, store, client_ip, t, data, plan) ==
    LET rl == rate_limit(storage, client_ip, t, ChatMaxRequests, WindowSeconds, "chat")
        v == validate_chat_request(data)
    IN  IF v.ok
        THEN [storage |-> rl.storage,
              outcome |-> IF rl.admitted
                          THEN Entered("rate_limit",
                                       request_logger(validate_request(store, data, plan)))
                          ELSE RateLimited(store, rl.retry_after)]
        ELSE [storage |-> storage, outcome |-> validate_request(store, data, plan)]

\* @rate_limit(30, 60, "chat") @request_logger @validate_request(validate_chat_request)
ChatRoute(storage, store, client_ip, t, data, plan) ==
    LET rl == rate_limit(storage, client_ip, t, ChatMaxRequests, WindowSeconds, "chat")
    IN  [storage |-> rl.storage,
         outcome |-> IF rl.admitted
                     THEN Entered("rate_limit", request_logger(validate_request(store, data, plan)))
                     ELSE RateLimited(store, rl.retry_after)]

\* @rate_limit(10, 60, "reset")
ResetRoute(storage, store, client_ip, t, data) ==
    LET rl == rate_limit(storage, client_ip, t, ResetMaxRequests, WindowSeconds, "reset")
    IN  [storage |-> rl.storage,
         outcome |-> IF rl.admitted
                     THEN Entered("rate_limit", reset_conversation(store, data))
                     ELSE RateLimited(store, rl.retry_after)]

(***************************************************************************)
(* The HTTP server as a state machine: requests are handled one at a time  *)
(* and the clock advances between them.                                    *)
(***************************************************************************)
Clients == {"c1"}
Prefixes == {"chat", "reset"}
RateKeys == {RateKey(p, c) : p \in Prefixes, c \in Clients}

T1 == Str(0, "t1", 2, 0)
\* the session ids a validated chat request can carry
Sessions == {DefaultSession, T1}

Hi == Str(0, "x", 1, 0)

\* chat bodies: malformed, not an object, valid (no session id, "t1"),
\* an empty message, a message one character too long
ChatBodies ==
    {NoBody, NonObject(TRUE),
     Object(Hi, Absent, FALSE), Object(Hi, T1, FALSE),
     Object(Str(0, "x", 0, 0), T1, FALSE),
     Object(Str(0, "x", MessageMaxLength + 1, 0), T1, FALSE)}

ResetSessionInputs ==
    {Absent, Null, T1, Str(MaxPad, "t1", 2, 0), DefaultSession, Num(7),
     Str(0, "s", ResetSessionIdMaxLength + 1, 0)}
ResetBodies ==
    {NoBody, NonObject(TRUE)} \cup {Object(Absent, sid, FALSE) : sid \in ResetSessionInputs}

Fresh == [answered |-> 0, reported |-> -1]

NoRequest ==
    [parity |-> 0, route |-> "none", client |-> "", body_kind |-> "none", session |-> Absent,
     response |-> NoResponse, gates |-> <<>>, assistant |-> "not called",
     tool_calls |-> FALSE, prior_count |-> -1, body_ok |-> FALSE, prev_cleared |-> -1]

HttpInit ==
    /\ now = 0
    /\ rate_limit_storage = [k \in RateKeys |-> <<>>]
    /\ conversations = <<>>
    /\ last = NoRequest
    /\ exchanges = [sid \in Sessions |-> Fresh]

LibraryIdle == UNCHANGED <<call, arg, ret>>
LibraryInit ==
    /\ call = "none"
    /\ arg = NoBody
    /\ ret = Raised

Init == HttpInit /\ LibraryInit

\* the clock moves on
Advance ==
    /\ now < MaxTime
    /\ now' = now + 1
    /\ UNCHANGED <<rate_limit_storage, conversations, last, exchanges>>
    /\ LibraryIdle

\* the bookkeeping of one exchange on session sid
Exchanged(log, sid, out) ==
    LET old == log[sid]
    IN  IF out.assistant = "returned"
        THEN [log EXCEPT ![sid] =
                [answered |-> IF old.answered >= 0 THEN old.answered + 1 ELSE -1,
                 reported |-> IF out.response.status = 200
                              THEN out.response.message_count ELSE old.reported]]
        ELSE IF out.assistant = "raised" /\ sid \in DOMAIN out.conversations
        THEN [log EXCEPT ![sid] = [answered |-> -1, reported |-> old.reported]]
        ELSE log

\* the LLM is not reached by a body that fails validation: one plan stands for all
PlansFor(data, plans) ==
    IF validate_chat_request(data).ok THEN plans ELSE {CHOOSE p \in plans : TRUE}

\* POST /api/chat with one of the given bodies, the LLM following one of the plans
ChatRequest(bodies, plans) ==
    \E client \in Clients, data \in bodies : \E plan \in PlansFor(data, plans) :
        LET r == ChatRoute(rate_limit_storage, conversations, client, now, data, plan)
            v == validate_chat_request(data)
        IN  /\ (v.ok /\ v.session_id \in DOMAIN conversations)
                  => Len(conversations[v.session_id]) <= MaxHistory
            /\ rate_limit_storage' = r.storage
            /\ conversations' = r.outcome.conversations
            /\ last' = [parity |-> 1 - last.parity, route |-> "chat", client |-> client,
                        body_kind |-> data.kind, session |-> data.session_id, response |-> Dispatch(r.outcome),
                        gates |-> r.outcome.gates, assistant |-> r.outcome.assistant,
                        tool_calls |-> (r.outcome.assistant # "not called"
                                        /\ plan.first = "tools"),
                        prior_count |-> -1, body_ok |-> v.ok, prev_cleared |-> -1]
            /\ exchanges' = IF v.ok THEN Exchanged(exchanges, v.session_id, r.outcome)
                            ELSE exchanges
            /\ now' = now
            /\ LibraryIdle

\* the session id a reset request resolves to
ResetSession(data) ==
    IF ~BodyTruthy(data) \/ data.session_id.kind = "absent" THEN DefaultSession
    ELSE data.session_id

\* POST /api/reset with one of the given bodies
ResetRequest(bodies) ==
    \E client \in Clients, data \in bodies :
        LET r == ResetRoute(rate_limit_storage, conversations, client, now, data)
            resp == Dispatch(r.outcome)
            sid == ResetSession(data)
        IN  /\ rate_limit_storage' = r.storage
            /\ conversations' = r.outcome.conversations
            /\ last' = [parity |-> 1 - last.parity, route |-> "reset", client |-> client,
                        body_kind |-> data.kind, session |-> data.session_id, response |-> resp,
                        gates |-> r.outcome.gates, assistant |-> "not called",
                        tool_calls |-> FALSE,
                        prior_count |-> IF sid \in Sessions THEN exchanges[sid].reported
                                        ELSE -1,
                        body_ok |-> (r.outcome.response.status = 200),
                        prev_cleared |-> IF last.route = "reset" /\ last.session = data.session_id
                                            /\ last.response.status = 200
                                         THEN last.response.messages_cleared ELSE -1]
            /\ exchanges' = IF resp.status = 200 /\ sid \in Sessions
                            THEN [exchanges EXCEPT ![sid] = Fresh] ELSE exchanges
            /\ now' = now
            /\ LibraryIdle

(***************************************************************************)
(* Spec: chat and reset requests of every kind arriving within one window. *)
(***************************************************************************)
Next ==
    \/ ChatRequest(ChatBodies, Plans)
    \/ ResetRequest(ResetBodies)

Spec == Init /\ [][Next]_vars

(***************************************************************************)
(* SpecLimiter: the limiter against a moving clock.                        *)
(***************************************************************************)
LimiterChatBodies == {NoBody, Object(Hi, T1, FALSE)}
LimiterPlans == {[first |-> "answer", ntools |-> 0, fail_at |-> 0, second |-> "answer"]}

NextLimiter ==
    \/ Advance
    \/ ChatRequest(LimiterChatBodies, LimiterPlans)

SpecLimiter == Init /\ [][NextLimiter]_vars

(***************************************************************************)
(* SpecValidate: the validators exercised on their own.                    *)
(***************************************************************************)
NextValidate ==
    \/ Call_validate_chat_request
    \/ Call_validate_session_id
    \/ Return

SpecValidate == Init /\ [][NextValidate]_vars

(***************************************************************************)
(* health_checks.py.  The environment of a health run: whether psutil can  *)
(* be imported, whether its probes raise, the usage percentages they read, *)
(* whether the database query and the OpenAI call raise, and how long the  *)
(* database query takes.                                                   *)
(***************************************************************************)
CriticalMemoryPercent == 90
HighMemoryPercent == 75
CriticalDiskPercent == 90
LowDiskPercent == 75
SlowDatabaseMs == 1000

HEALTHY == "healthy"
DEGRADED == "degraded"
UNHEALTHY == "unhealthy"

check_database(env) ==
    IF env.database = "raise" THEN UNHEALTHY
    ELSE IF env.latency_ms > SlowDatabaseMs THEN DEGRADED
    ELSE HEALTHY

check_openai(env) == IF env.openai = "raise" THEN UNHEALTHY ELSE HEALTHY

check_memory(env) ==
    IF ~env.psutil THEN HEALTHY
    ELSE IF env.memory_raises THEN DEGRADED
    ELSE IF env.memory_percent > CriticalMemoryPercent THEN UNHEALTHY
    ELSE IF env.memory_percent > HighMemoryPercent THEN DEGRADED
    ELSE HEALTHY

check_disk(env) ==
    IF ~env.psutil THEN HEALTHY
    ELSE IF env.disk_raises THEN DEGRADED
    ELSE IF env.disk_percent > CriticalDiskPercent THEN UNHEALTHY
    ELSE IF env.disk_percent > LowDiskPercent THEN DEGRADED
    ELSE HEALTHY

\* the overall status of the collected checks
Overall(checks) ==
    LET statuses == {checks[name] : name \in DOMAIN checks}
    IN  IF UNHEALTHY \in statuses THEN UNHEALTHY
        ELSE IF DEGRADED \in statuses THEN DEGRADED
        ELSE HEALTHY

\* run_all_health_checks that runs the external checks whatever the flag says
run_all_health_checks_external(env, include_external) ==
    LET checks == [name \in {"memory", "disk", "database", "openai"} |->
                        CASE name = "memory" -> check_memory(env)
                          [] name = "disk" -> check_disk(env)
                          [] name = "database" -> check_database(env)
                          [] OTHER -> check_openai(env)]
    IN  [status |-> Overall(checks), checks |-> checks]

run_all_health_checks(env, include_external) ==
    LET checks == [name \in (IF include_external
                             THEN {"memory", "disk", "database", "openai"}
                             ELSE {"memory", "disk"}) |->
                        CASE name = "memory" -> check_memory(env)
                          [] name = "disk" -> check_disk(env)
                          [] name = "database" -> check_database(env)
                          [] OTHER -> check_openai(env)]
    IN  [status |-> Overall(checks), checks |-> checks]

\* readings on both sides of a threshold
Near(limit) == (limit - Slack)..(limit + Slack)

\* a probe either raises or reads a percentage near one of its thresholds
Probes(high, critical) ==
    {[raises |-> TRUE, percent |-> 0]}
    \cup {[raises |-> FALSE, percent |-> p] : p \in Near(high) \cup Near(critical)}

Databases ==
    {[database |-> "raise", latency_ms |-> 0]}
    \cup {[database |-> "ok", latency_ms |-> ms] : ms \in Near(SlowDatabaseMs)}

Environment(psutil, memory, disk, db, openai) ==
    [psutil |-> psutil,
     memory_raises |-> memory.raises, memory_percent |-> memory.percent,
     disk_raises |-> disk.raises, disk_percent |-> disk.percent,
     database |-> db.database, latency_ms |-> db.latency_ms, openai |-> openai]

Environments ==
    {Environment(TRUE, m, d, db, o) :
        m \in Probes(HighMemoryPercent, CriticalMemoryPercent),
        d \in Probes(LowDiskPercent, CriticalDiskPercent),
        db \in Databases, o \in {"ok", "raise"}}
    \cup {Environment(FALSE, [raises |-> TRUE, percent |-> 0], [raises |-> TRUE, percent |-> 0],
                      db, o) : db \in Databases, o \in {"ok", "raise"}}

Call_run_all_health_checks ==
    /\ call = "none"
    /\ \E env \in Environments, include_external \in BOOLEAN :
        /\ call' = "run_all_health_checks"
        /\ arg' = [env |-> env, include_external |-> include_external]
        /\ ret' = run_all_health_checks(env, include_external)
        /\ ServerIdle

(***************************************************************************)
(* SpecHealth: the health checks run in every environment.                 *)
(***************************************************************************)
NextHealth ==
    \/ Call_run_all_health_checks
    \/ Return

SpecHealth == Init /\ [][NextHealth]_vars

(***************************************************************************)
(* dynamic_queries.py: the reconstruction of a trade, written three times  *)
(* over (get_recent_trades, get_player_trade_history,                      *)
(* get_team_trade_history).  A transaction row carries roster_ids (a       *)
(* list), adds and drops (player id -> roster id, kept as the list of      *)
(* their items) and draft_picks (a list of picks with owner_id, the        *)
(* receiver, and roster_id, the original owner).  Roster ids are positive; *)
(* owner_id 0 stands for a pick without owner_id, and is as falsy as None. *)
(***************************************************************************)
RosterIds == 1..MaxRosters

Range(s) == {s[i] : i \in DOMAIN s}

\* the set all_roster_ids without the receivers of the draft picks
all_roster_ids_without_picks(txn) ==
    Range(txn.roster_ids)
    \cup {move.roster_id : move \in Range(txn.adds)}
    \cup {move.roster_id : move \in Range(txn.drops)}

all_roster_ids(txn) ==
    Range(txn.roster_ids)
    \cup {move.roster_id : move \in Range(txn.adds)}
    \cup {move.roster_id : move \in Range(txn.drops)}
    \cup {pick.owner_id : pick \in {p \in Range(txn.draft_picks) : p.owner_id # 0}}

\* the orders in which a set may be iterated
Orders(S) ==
    {order \in [1..Cardinality(S) -> S] :
        \A i, j \in 1..Cardinality(S) : i # j => order[i] # order[j]}

\* roster_map.get(roster_id, f"Team {roster_id}")
TeamName(roster_map, roster_id) ==
    IF roster_id \in DOMAIN roster_map THEN roster_map[roster_id]
    ELSE [known |-> FALSE, roster_id |-> roster_id]

PlayerItem(move) == [kind |-> "player", player_id |-> move.player_id, pick |-> 0]
PickItem(i) == [kind |-> "pick", player_id |-> "", pick |-> i]

\* the players moved to or from roster_id, in the order of the map's items
PlayerItems(moves, roster_id) ==
    LET mine == SelectSeq(moves, LAMBDA move : move.roster_id = roster_id)
    IN  [i \in DOMAIN mine |-> PlayerItem(mine[i])]

\* the giver taken to be the first team that is not the receiver, always
Giver_first_other(pick, order) ==
    LET giving_up_teams == SelectSeq(order, LAMBDA rid : rid # pick.owner_id)
    IN  IF Len(giving_up_teams) > 0 THEN giving_up_teams[1] ELSE 0

\* the team that is taken to give up the pick: the only other team, else the
\* original owner when it takes part, else the first team that is not the receiver
Giver(pick, order) ==
    LET giving_up_teams == SelectSeq(order, LAMBDA rid : rid # pick.owner_id)
    IN  IF Len(giving_up_teams) = 1 THEN giving_up_teams[1]
        ELSE IF pick.roster_id \in Range(giving_up_teams) THEN pick.roster_id
        ELSE IF Len(giving_up_teams) > 0 THEN giving_up_teams[1]
        ELSE 0

\* the picks roster_id receives, as items, in list order
PicksReceived(draft_picks, roster_id) ==
    LET indices == SelectSeq([i \in DOMAIN draft_picks |-> i],
                             LAMBDA i : draft_picks[i].owner_id = roster_id)
    IN  [k \in DOMAIN indices |-> PickItem(indices[k])]

\* the picks roster_id is taken to give up, as items, in list order
PicksGivenUp(draft_picks, order, roster_id) ==
    LET indices == SelectSeq([i \in DOMAIN draft_picks |-> i],
                             LAMBDA i : Giver(draft_picks[i], order) = roster_id)
    IN  [k \in DOMAIN indices |-> PickItem(indices[k])]

\* teams_data and list(teams_data.values()): one entry per member of
\* all_roster_ids, in the order the set was iterated; roster_id is the key
\* under which the entry was made
reconstruct(txn, roster_map, order) ==
    [i \in DOMAIN order |->
        LET roster_id == order[i]
        IN  [roster_id |-> roster_id,
             team_name |-> TeamName(roster_map, roster_id),
             gave_up |-> PlayerItems(txn.drops, roster_id)
                         \o PicksGivenUp(txn.draft_picks, order, roster_id),
             received |-> PlayerItems(txn.adds, roster_id)
                          \o PicksReceived(txn.draft_picks, roster_id)]]

\* the trades an entry point returns for the transactions table holding txn
Rendered(selected, txn, roster_map, order) ==
    [trades |-> IF selected
                THEN <<[transaction_id |-> txn.transaction_id,
                        teams |-> reconstruct(txn, roster_map, order)]>>
                ELSE <<>>]

\* .eq('type', 'trade').eq('status', 'complete')
CompleteTrade(txn) == txn.type = "trade" /\ txn.status = "complete"

get_recent_trades(txn, roster_map, order) ==
    Rendered(CompleteTrade(txn), txn, roster_map, order)

get_player_trade_history(player_id, txn, roster_map, order) ==
    Rendered(/\ CompleteTrade(txn)
             /\ \/ player_id \in {move.player_id : move \in Range(txn.adds)}
                \/ player_id \in {move.player_id : move \in Range(txn.drops)},
             txn, roster_map, order)

get_team_trade_history(team_roster_id, txn, roster_map, order) ==
    Rendered(CompleteTrade(txn) /\ team_roster_id \in Range(txn.roster_ids),
             txn, roster_map, order)

(***************************************************************************)
(* Transactions tried on the entry points.                                 *)
(***************************************************************************)
Move(player_id, roster_id) == [player_id |-> player_id, roster_id |-> roster_id]

\* the items of a map whose keys are among p1, p2
Moves(keys) ==
    {<<>>}
    \cup {<<Move(k, r)>> : k \in keys, r \in RosterIds}
    \cup (IF keys = {"p1", "p2"}
          THEN {<<Move("p1", r1), Move("p2", r2)>> : r1, r2 \in RosterIds}
          ELSE {})

Pick(owner_id, roster_id) == [owner_id |-> owner_id, roster_id |-> roster_id]

\* lists of at most n picks that were first owned by roster 1, received by
\* any roster or by none
RECURSIVE PickLists(_)
PickLists(n) ==
    IF n = 0 THEN {<<>>}
    ELSE PickLists(n - 1)
         \cup {Append(picks, Pick(owner_id, 1)) :
                 picks \in {l \in PickLists(n - 1) : Len(l) = n - 1},
                 owner_id \in 0..MaxRosters}

\* roster_ids: missing, or two sides of the trade
RosterIdLists == {<<>>, <<1, 2>>, <<2, MaxRosters>>, <<MaxRosters, 1>>}

Transaction(status, roster_ids, adds, drops, draft_picks) ==
    [transaction_id |-> "t1", type |-> "trade", status |-> status,
     roster_ids |-> roster_ids, adds |-> adds, drops |-> drops,
     draft_picks |-> draft_picks]

Transactions ==
    {Transaction("complete", roster_ids, adds, drops, draft_picks) :
        roster_ids \in RosterIdLists, adds \in Moves({"p1", "p2"}),
        drops \in Moves({"p1"}), draft_picks \in PickLists(MaxPicks)}
    \cup {Transaction("failed", <<1, 2>>, <<Move("p1", 1)>>, <<Move("p1", 2)>>, <<>>)}

\* the rosters table: every roster but the last has a row
RosterMap == [roster_id \in 1..(MaxRosters - 1) |-> [known |-> TRUE, roster_id |-> roster_id]]

Call_get_recent_trades ==
    /\ call = "none"
    /\ \E txn \in Transactions : \E order \in Orders(all_roster_ids(txn)) :
        /\ call' = "get_recent_trades"
        /\ arg' = txn
        /\ ret' = get_recent_trades(txn, RosterMap, order)
        /\ ServerIdle

Call_get_player_trade_history ==
    /\ call = "none"
    /\ \E txn \in Transactions : \E order \in Orders(all_roster_ids(txn)) :
        /\ call' = "get_player_trade_history"
        /\ arg' = txn
        /\ ret' = get_player_trade_history("p1", txn, RosterMap, order)
        /\ ServerIdle

Call_get_team_trade_history ==
    /\ call = "none"
    /\ \E txn \in Transactions : \E order \in Orders(all_roster_ids(txn)) :
        /\ call' = "get_team_trade_history"
        /\ arg' = txn
        /\ ret' = get_team_trade_history(1, txn, RosterMap, order)
        /\ ServerIdle

(***************************************************************************)
(* SpecTrades: the three entry points on every transaction.                *)
(***************************************************************************)
NextTrades ==
    \/ Call_get_recent_trades
    \/ Call_get_player_trade_history
    \/ Call_get_team_trade_history
    \/ Return

SpecTrades == Init /\ [][NextTrades]_vars

(***************************************************************************)
(* dynamic_queries.py: find_team_by_name.  A name is the sequence of its   *)
(* characters, or null.                                                    *)
(***************************************************************************)
NullName == [null |-> TRUE, chars |-> <<>>]
Name(chars) == [null |-> FALSE, chars |-> chars]

\* user_data.get(key, '') or ''
OrEmpty(name) == IF name.null THEN <<>> ELSE name.chars

\* str.lower()
LowerChar(c) == CASE c = "A" -> "a" [] c = "B" -> "b" [] OTHER -> c
Lower(s) == [i \in DOMAIN s |-> LowerChar(s[i])]

\* the blanks at the start of s
RECURSIVE LeadingBlanks(_)
LeadingBlanks(s) ==
    IF s = <<>> \/ s[1] # " " THEN 0 ELSE 1 + LeadingBlanks(Tail(s))

\* the blanks at the end of s
RECURSIVE TrailingBlanks(_)
TrailingBlanks(s) ==
    IF s = <<>> \/ s[Len(s)] # " " THEN 0
    ELSE 1 + TrailingBlanks(SubSeq(s, 1, Len(s) - 1))

\* str.strip()
StripChars(s) ==
    IF LeadingBlanks(s) = Len(s) THEN <<>>
    ELSE SubSeq(s, LeadingBlanks(s) + 1, Len(s) - TrailingBlanks(s))

\* needle in hay
Contains(hay, needle) ==
    \E i \in 0..(Len(hay) - Len(needle)) : SubSeq(hay, i + 1, i + Len(needle)) = needle

\* set(s.split())
Words(s) ==
    {SubSeq(s, i, j) : i \in DOMAIN s, j \in DOMAIN s} \cap
    {w \in UNION {[1..n -> Range(s) \ {" "}] : n \in 1..Len(s)} :
        \E i \in DOMAIN s :
            /\ i + Len(w) - 1 <= Len(s)
            /\ SubSeq(s, i, i + Len(w) - 1) = w
            /\ (i = 1 \/ s[i - 1] = " ")
            /\ (i + Len(w) - 1 = Len(s) \/ s[i + Len(w)] = " ")}

\* set(s.replace(' ', ''))
Chars(s) == Range(s) \ {" "}

\* the match score of one roster
MatchScore(search_lower, team_name_lower, display_name_lower) ==
    LET team_overlap == Cardinality(Words(search_lower) \cap Words(team_name_lower))
        display_overlap == Cardinality(Words(search_lower) \cap Words(display_name_lower))
        score == IF search_lower = team_name_lower \/ search_lower = display_name_lower
                    THEN 100
                 ELSE IF Contains(team_name_lower, search_lower)
                         \/ Contains(display_name_lower, search_lower)
                    THEN 80
                 ELSE IF Contains(search_lower, team_name_lower)
                         \/ Contains(search_lower, display_name_lower)
                    THEN 70
                 ELSE IF team_overlap > 0 \/ display_overlap > 0
                    THEN 50 + Max(team_overlap, display_overlap) * 10
                 ELSE 0
        search_chars == Chars(search_lower)
        overlap == Cardinality(Chars(team_name_lower) \cap search_chars)
    IN  IF score = 0 /\ Cardinality(search_chars) > 0
           /\ overlap * 100 > 60 * Cardinality(search_chars)
        THEN (overlap * 40) \div Cardinality(search_chars)
        ELSE score

TeamError == [error |-> TRUE, roster_id |-> 0, match_score |-> 0]
TeamMatch(roster_id, score) == [error |-> FALSE, roster_id |-> roster_id, match_score |-> score]

\* list.sort(key=match_score, reverse=True): stable, highest score first
RECURSIVE SortByScore(_)
SortByScore(matches) ==
    IF matches = <<>> THEN <<>>
    ELSE LET best == CHOOSE i \in DOMAIN matches :
                        /\ \A j \in DOMAIN matches :
                                matches[j].match_score <= matches[i].match_score
                        /\ \A j \in 1..(i - 1) :
                                matches[j].match_score < matches[i].match_score
         IN  <<matches[best]>>
             \o SortByScore(SubSeq(matches, 1, best - 1)
                            \o SubSeq(matches, best + 1, Len(matches)))

\* rosters: the rows of the league, each with its joined users row (which
\* may be null)
find_team_by_name(team_name_search, rosters) ==
    LET search_lower == StripChars(Lower(team_name_search))
        scored == [i \in DOMAIN rosters |->
                    TeamMatch(rosters[i].roster_id,
                              MatchScore(search_lower,
                                         Lower(OrEmpty(rosters[i].team_name)),
                                         Lower(OrEmpty(rosters[i].display_name))))]
        matches == SortByScore(SelectSeq(scored, LAMBDA m : m.match_score > 0))
    IN  IF rosters = <<>> THEN <<TeamError>>
        ELSE IF \E i \in DOMAIN rosters : ~rosters[i].has_users
            THEN <<TeamError>>   \* None.get: AttributeError, caught
        ELSE IF matches = <<>> THEN <<TeamError>>
        ELSE IF Len(matches) > 1
                /\ 10 * matches[2].match_score >= 8 * matches[1].match_score
            THEN SubSeq(matches, 1, IF Len(matches) < 3 THEN Len(matches) ELSE 3)
        ELSE <<matches[1]>>

\* names and search terms tried
NameInputs ==
    {NullName, Name(<<>>), Name(<<"a">>), Name(<<"A", "b">>), Name(<<"b", " ", "c">>),
     Name(<<"c", "d">>)}
SearchInputs ==
    {<<"z">>, <<"a">>, <<" ", "B">>, <<"c", " ", "z">>, <<"d", "c">>, <<"a", "b", "z">>}

RosterRow(roster_id, has_users, team_name, display_name) ==
    [roster_id |-> roster_id, has_users |-> has_users,
     team_name |-> team_name, display_name |-> display_name]

UsersInputs ==
    {[has_users |-> TRUE, team_name |-> t, display_name |-> d] :
        t \in NameInputs, d \in {NullName, Name(<<"a">>), Name(<<"c", "d">>)}}
    \cup {[has_users |-> FALSE, team_name |-> NullName, display_name |-> NullName]}

\* the rosters table of the league: at most MaxTeams rows
RosterTables ==
    UNION {{[i \in 1..n |-> RosterRow(i, users[i].has_users, users[i].team_name,
                                       users[i].display_name)] :
                users \in [1..n -> UsersInputs]} : n \in 0..MaxTeams}

Call_find_team_by_name ==
    /\ call = "none"
    /\ \E team_name_search \in SearchInputs, rosters \in RosterTables :
        /\ call' = "find_team_by_name"
        /\ arg' = [team_name_search |-> team_name_search, rosters |-> rosters]
        /\ ret' = find_team_by_name(team_name_search, rosters)
        /\ ServerIdle

(***************************************************************************)
(* SpecTeams: find_team_by_name on every rosters table.                    *)
(***************************************************************************)
NextTeams ==
    \/ Call_find_team_by_name
    \/ Return

SpecTeams == Init /\ [][NextTeams]_vars

(***************************************************************************)
(* dynamic_queries.get_weekly_matchups and league_queries.                 *)
(* get_matchup_results.  A matchups row carries matchup_id, roster_id and  *)
(* points; points of -1 stands for a null points column.                   *)
(***************************************************************************)
MatchupRow(matchup_id, roster_id, points) ==
    [matchup_id |-> matchup_id, roster_id |-> roster_id, points |-> points]

\* the matchup ids in the order their groups were opened (dict insertion order)
RECURSIVE GroupOrder(_)
GroupOrder(rows) ==
    IF rows = <<>> THEN <<>>
    ELSE LET before == GroupOrder(SubSeq(rows, 1, Len(rows) - 1))
             matchup_id == rows[Len(rows)].matchup_id
         IN  IF matchup_id \in Range(before) THEN before ELSE Append(before, matchup_id)

\* matchups_by_id[matchup_id]: the rows of the group, in table order
Group(rows, matchup_id) == SelectSeq(rows, LAMBDA row : row.matchup_id = matchup_id)

HeadToHead(matchup_id, team1, team1_score, team2, team2_score, winner) ==
    [matchup_id |-> matchup_id, team1 |-> team1, team1_score |-> team1_score,
     team2 |-> team2, team2_score |-> team2_score, winner |-> winner]

\* one entry of get_weekly_matchups; winner 0 is "Tie"
WeeklyEntry(matchup_id, teams) ==
    HeadToHead(matchup_id, teams[1].roster_id, teams[1].points,
               teams[2].roster_id, teams[2].points,
               IF teams[1].points > teams[2].points THEN teams[1].roster_id
               ELSE IF teams[2].points > teams[1].points THEN teams[2].roster_id
               ELSE 0)

\* float(matchup['points'] or 0)
PointsOrZero(points) == IF points = -1 THEN 0 ELSE points

\* one entry of get_matchup_results
ResultEntry(matchup_id, teams) ==
    HeadToHead(matchup_id, teams[1].roster_id, PointsOrZero(teams[1].points),
               teams[2].roster_id, PointsOrZero(teams[2].points),
               IF PointsOrZero(teams[1].points) > PointsOrZero(teams[2].points)
               THEN teams[1].roster_id ELSE teams[2].roster_id)

\* the groups of exactly two rows, in group order
Pairs(rows) == SelectSeq(GroupOrder(rows), LAMBDA id : Len(Group(rows, id)) = 2)

get_weekly_matchups(rows) ==
    LET pairs == Pairs(rows)
    IN  IF rows = <<>> THEN [error |-> TRUE, matchups |-> <<>>]
        \* None > float raises TypeError, which the function turns into {'error': ...}
        ELSE IF \E k \in DOMAIN pairs : \E i \in {1, 2} : Group(rows, pairs[k])[i].points = -1
            THEN [error |-> TRUE, matchups |-> <<>>]
        ELSE [error |-> FALSE,
              matchups |-> [k \in DOMAIN pairs |-> WeeklyEntry(pairs[k], Group(rows, pairs[k]))]]

get_matchup_results(rows) ==
    LET pairs == Pairs(rows)
    IN  [error |-> FALSE,
         matchups |-> [k \in DOMAIN pairs |-> ResultEntry(pairs[k], Group(rows, pairs[k]))]]

\* the matchups rows of one league and week: row i belongs to roster i
MatchupTables ==
    UNION {{[i \in 1..n |-> MatchupRow(cells[i][1], i, cells[i][2])] :
                cells \in [1..n -> {1, 2} \X {-1, 10, 20}]} : n \in 0..MaxRows}

\* .order('matchup_id')
OrderedById(rows) ==
    \A i, j \in DOMAIN rows : i < j => rows[i].matchup_id <= rows[j].matchup_id

Call_get_weekly_matchups ==
    /\ call = "none"
    /\ \E rows \in {t \in MatchupTables : OrderedById(t)} :
        /\ call' = "get_weekly_matchups"
        /\ arg' = [rows |-> rows]
        /\ ret' = get_weekly_matchups(rows)
        /\ ServerIdle

Call_get_matchup_results ==
    /\ call = "none"
    /\ \E rows \in MatchupTables :
        /\ call' = "get_matchup_results"
        /\ arg' = [rows |-> rows]
        /\ ret' = get_matchup_results(rows)
        /\ ServerIdle

(***************************************************************************)
(* SpecMatchups: the two matchup formatters on every table.                *)
(***************************************************************************)
NextMatchups ==
    \/ Call_get_weekly_matchups
    \/ Call_get_matchup_results
    \/ Return

SpecMatchups == Init /\ [][NextMatchups]_vars

(***************************************************************************)
(* sync_sleeper_data.py: make_request_with_retry, one loop iteration per   *)
(* step.  ret holds the progress of the call: the outcomes of the attempts *)
(* made so far, the sleeps taken, and how the call ended.                  *)
(***************************************************************************)
MAX_RETRIES == 3
RETRY_DELAY == 2

\* requests.get(url, timeout=10), raise_for_status(), response.json(): a
\* response, a Timeout, or another RequestException
AttemptOutcomes == {"ok", "timeout", "connection_error", "http_error"}

Retrying(outcomes, slept, status) == [outcomes |-> outcomes, slept |-> slept, status |-> status]

Call_make_request_with_retry ==
    /\ call = "none"
    /\ \E max_retries \in 1..(MAX_RETRIES + Slack) :
        /\ call' = "make_request_with_retry"
        /\ arg' = [max_retries |-> max_retries]
        /\ ret' = Retrying(<<>>, <<>>, "running")
        /\ ServerIdle

\* the body of `for attempt in range(max_retries)`, and the return after the loop
attempt_request(max_retries, progress, outcome) ==
    LET attempt == Len(progress.outcomes)
        outcomes == Append(progress.outcomes, outcome)
        sleeps == IF attempt < max_retries - 1
                  THEN Append(progress.slept, RETRY_DELAY * (attempt + 1))
                  ELSE progress.slept
    IN  IF outcome = "ok" THEN Retrying(outcomes, progress.slept, "returned")
        ELSE IF outcome = "timeout"
            THEN Retrying(outcomes, sleeps,
                          IF attempt < max_retries - 1 THEN "running" ELSE "returned None")
        ELSE Retrying(outcomes, sleeps,
                      IF attempt < max_retries - 1 THEN "running" ELSE "raised")

Attempt ==
    /\ call = "make_request_with_retry"
    /\ ret.status = "running"
    /\ \E outcome \in AttemptOutcomes :
        /\ ret' = attempt_request(arg.max_retries, ret, outcome)
        /\ UNCHANGED <<call, arg>>
        /\ ServerIdle

\* the call has ended and its caller goes on
Finish ==
    /\ call = "make_request_with_retry"
    /\ ret.status # "running"
    /\ call' = "none"
    /\ arg' = NoBody
    /\ ret' = Raised
    /\ ServerIdle

(***************************************************************************)
(* SpecRetry: make_request_with_retry against every run of outcomes.       *)
(***************************************************************************)
NextRetry ==
    \/ Call_make_request_with_retry
    \/ Attempt
    \/ Finish

SpecRetry == Init /\ [][NextRetry]_vars

(***************************************************************************)
(* data_first_engine.py: fetch_all_data and answer_question_data_first.    *)
(* A requirement carries its data-type tag and what its fetch does: the    *)
(* function returns a payload ("ok"), raises ("raise"), or is missing from *)
(* the function map ("unknown").  The payload of a requirement is named by *)
(* the position of the requirement in the analysis.                        *)
(***************************************************************************)
DataRequirement(data_type, fetch, position) ==
    [data_type |-> data_type, fetch |-> fetch, position |-> position]

\* DataContext: fetched_data (data type -> payload) and errors
DataContext(fetched_data, errors) == [fetched_data |-> fetched_data, errors |-> errors]
EmptyContext == DataContext(<<>>, <<>>)

\* context.add_data(data_type, data)
add_data(context, data_type, data) ==
    DataContext([t \in (DOMAIN context.fetched_data) \cup {data_type} |->
                    IF t = data_type THEN data ELSE context.fetched_data[t]],
                context.errors)

\* context.add_error(error_msg): the message names the function that was not
\* found or the data type whose fetch raised
add_error(context, kind, req) ==
    DataContext(context.fetched_data,
                Append(context.errors, [kind |-> kind, data_type |-> req.data_type]))

RECURSIVE fetch_all_data(_)
fetch_all_data(requirements) ==
    IF requirements = <<>> THEN EmptyContext
    ELSE LET context == fetch_all_data(SubSeq(requirements, 1, Len(requirements) - 1))
             req == requirements[Len(requirements)]
         IN  CASE req.fetch = "unknown" -> add_error(context, "not found", req)
               [] req.fetch = "raise" -> add_error(context, "error fetching", req)
               [] OTHER -> add_data(context, req.data_type, req.position)

\* the context answer_question_data_first hands to answer_with_data_context.
\* `for req in requirements: context = fetch_all_data([req])` assigns context
\* anew in every iteration, so after the loop it is that of the last one
answer_question_data_first(requirements) ==
    IF requirements = <<>> THEN EmptyContext
    ELSE fetch_all_data(<<requirements[Len(requirements)]>>)

\* the requirement lists an analysis can yield
RequirementLists ==
    UNION {{[i \in 1..n |-> DataRequirement(cells[i][1], cells[i][2], i)] :
                cells \in [1..n -> (1..2) \X {"ok", "raise", "unknown"}]} :
            n \in 0..MaxRequirements}

Call_fetch_all_data ==
    /\ call = "none"
    /\ \E requirements \in RequirementLists :
        /\ call' = "fetch_all_data"
        /\ arg' = requirements
        /\ ret' = fetch_all_data(requirements)
        /\ ServerIdle

Call_answer_question_data_first ==
    /\ call = "none"
    /\ \E requirements \in RequirementLists :
        /\ call' = "answer_question_data_first"
        /\ arg' = requirements
        /\ ret' = answer_question_data_first(requirements)
        /\ ServerIdle

(***************************************************************************)
(* SpecEngine: the fetch stage on every requirement list.                  *)
(***************************************************************************)
NextEngine ==
    \/ Call_fetch_all_data
    \/ Call_answer_question_data_first
    \/ Return

SpecEngine == Init /\ [][NextEngine]_vars

(***************************************************************************)
(* fantasy_assistant_v3.py: chat_v3.  engine says whether                  *)
(* answer_question_data_first returns or raises, llm whether the direct    *)
(* completion call returns or raises.                                      *)
(***************************************************************************)
\* a reply: where its text comes from, and whether it says that the
\* data-first approach failed
Reply(source, notice) == [source |-> source, notice |-> notice]

\* a completion request: its system prompt and the messages after it
Completion(system, messages) == [system |-> system, messages |-> messages]

ChatResult(raised, response, history, llm_calls) ==
    [raised |-> raised, response |-> response, history |-> history, llm_calls |-> llm_calls]

chat_v3(message, is_none, conversation_history, use_data_first, engine, llm) ==
    LET h0 == IF is_none THEN <<>> ELSE conversation_history
        h1 == Append(h0, UserMessage(message))
        reply(text) == Entry("assistant", FALSE, Str(0, text, 1, 0), 0)
        direct == Completion("minimal, with the date", h1)
    IN  IF use_data_first
        THEN IF engine = "answer"
             THEN ChatResult(FALSE, Reply("engine", FALSE),
                             Append(h1, reply("engine answer")), <<>>)
             ELSE ChatResult(FALSE, Reply("fallback text", TRUE),
                             Append(h1, reply("fallback_response")), <<>>)
        ELSE IF llm = "answer"
             THEN ChatResult(FALSE, Reply("llm", FALSE),
                             Append(h1, reply("llm answer")), <<direct>>)
             ELSE ChatResult(TRUE, Reply("none", FALSE), h1, <<direct>>)

\* earlier turns of a conversation
PriorTurns ==
    {<<>>, <<UserMessage(Hi)>>, <<UserMessage(Hi), AssistantMessage>>,
     <<UserMessage(Hi), AssistantMessage, UserMessage(Hi), AssistantMessage>>}

Call_chat_v3 ==
    /\ call = "none"
    /\ \E message \in {Hi, T1, Str(MaxPad, "x", 1, 0)}, is_none \in BOOLEAN,
          conversation_history \in PriorTurns, use_data_first \in BOOLEAN,
          engine \in {"answer", "raise"}, llm \in {"answer", "raise"} :
        /\ is_none => conversation_history = <<>>
        /\ call' = "chat_v3"
        /\ arg' = [message |-> message, is_none |-> is_none,
                   conversation_history |-> conversation_history,
                   use_data_first |-> use_data_first, engine |-> engine, llm |-> llm]
        /\ ret' = chat_v3(message, is_none, conversation_history, use_data_first, engine, llm)
        /\ ServerIdle

(***************************************************************************)
(* SpecV3: chat_v3 in both modes.                                          *)
(***************************************************************************)
NextV3 ==
    \/ Call_chat_v3
    \/ Return

SpecV3 == Init /\ [][NextV3]_vars

(***************************************************************************)
(* middleware.py: require_api_key.  A header, query parameter or           *)
(* environment variable is <<>> when it is not set (None) and <<s>> when   *)
(* it is set to the string s.  The Authorization header is kept as its     *)
(* first seven characters and the rest.                                    *)
(***************************************************************************)
\* Python truth of an optional string
KeyTruthy(v) == v # <<>> /\ v[1] # ""

AuthHeader(prefix, rest) == [prefix |-> prefix, rest |-> rest]

\* Python truth of request.headers.get("Authorization")
AuthTruthy(v) == v # <<>> /\ (v[1].prefix # "" \/ v[1].rest # "")

GateResult(status, handler_ran, error) ==
    [status |-> status, handler_ran |-> handler_ran, error |-> error]

require_api_key(configured_api_key, x_api_key, authorization, query) ==
    IF ~KeyTruthy(configured_api_key)
    THEN GateResult(200, TRUE, "")
    ELSE LET api_key ==
                 IF KeyTruthy(x_api_key) THEN x_api_key
                 ELSE IF AuthTruthy(authorization)
                      THEN IF authorization[1].prefix = "Bearer "
                           THEN <<authorization[1].rest>>
                           ELSE <<>>
                      ELSE IF KeyTruthy(query) THEN query
                      ELSE <<>>
         IN  IF ~KeyTruthy(api_key)
             THEN GateResult(401, FALSE, "Authentication required")
             ELSE IF api_key # configured_api_key
                  THEN GateResult(401, FALSE, "Invalid API key")
                  ELSE GateResult(200, TRUE, "")

\* optional strings seen by the gate
KeyValues == {<<>>, <<"">>, <<"secret">>, <<"wrong">>}

AuthValues ==
    {<<>>} \cup {<<AuthHeader(p, r)>> : p \in {"", "Bearer ", "Basic "}, r \in {"", "secret", "wrong"}}

Call_require_api_key ==
    /\ call = "none"
    /\ \E configured_api_key \in KeyValues \ {<<"wrong">>}, x_api_key \in KeyValues,
          authorization \in AuthValues, query \in KeyValues :
        /\ call' = "require_api_key"
        /\ arg' = [configured_api_key |-> configured_api_key, x_api_key |-> x_api_key,
                   authorization |-> authorization, query |-> query]
        /\ ret' = require_api_key(configured_api_key, x_api_key, authorization, query)
        /\ ServerIdle

(***************************************************************************)
(* SpecGate: the API-key gate on single requests.                          *)
(***************************************************************************)
NextGate ==
    \/ Call_require_api_key
    \/ Return

SpecGate == Init /\ [][NextGate]_vars

(***************************************************************************)
(* league_queries.py: get_standings.  A row of the rosters table keeps a   *)
(* points total as an integer part (fpts) and hundredths (fpts_decimal);   *)
(* points_for is held in hundredths.                                       *)
(***************************************************************************)
StandingsRow(roster_id, wins, fpts, fpts_decimal) ==
    [roster_id |-> roster_id, wins |-> wins, fpts |-> fpts, fpts_decimal |-> fpts_decimal]

\* the columns named in the select: fpts_decimal is not among them
SelectedRow(row) == [roster_id |-> row.roster_id, wins |-> row.wins, fpts |-> row.fpts]

\* roster.get('fpts_decimal', 0) on a selected row
SelectedDecimal(roster) == 0

StandingsEntry(roster) ==
    [roster_id |-> roster.roster_id, wins |-> roster.wins,
     points_for |-> roster.fpts * 100 + SelectedDecimal(roster)]

\* the sort key (wins, points_for), compared as tuples
KeyGreater(x, y) ==
    x.wins > y.wins \/ (x.wins = y.wins /\ x.points_for > y.points_for)

\* list.sort(key=..., reverse=True): descending, entries with equal keys
\* keep the order they had
RECURSIVE SortStandings(_)
SortStandings(standings) ==
    IF standings = <<>> THEN <<>>
    ELSE LET n == Len(standings)
             sorted == SortStandings(SubSeq(standings, 1, n - 1))
             x == standings[n]
             before == Cardinality({i \in 1..Len(sorted) : ~KeyGreater(x, sorted[i])})
         IN  SubSeq(sorted, 1, before) \o <<x>> \o SubSeq(sorted, before + 1, Len(sorted))

get_standings(table) ==
    SortStandings([i \in 1..Len(table) |-> StandingsEntry(SelectedRow(table[i]))])

\* rosters tables of one league, in the order the database returns them
StandingsTables ==
    UNION {[1..n -> {StandingsRow(0, w, f, d) : w \in 0..1, f \in 0..1, d \in {0, 50}}]
           : n \in 0..MaxRosters}

Call_get_standings ==
    /\ call = "none"
    /\ \E t \in StandingsTables :
        LET table == [i \in 1..Len(t) |-> [t[i] EXCEPT !.roster_id = i]]
        IN  /\ call' = "get_standings"
            /\ arg' = [table |-> table]
            /\ ret' = [standings |-> get_standings(table)]
            /\ ServerIdle

(***************************************************************************)
(* SpecStandings: get_standings on small rosters tables.                   *)
(***************************************************************************)
NextStandings ==
    \/ Call_get_standings
    \/ Return

SpecStandings == Init /\ [][NextStandings]_vars

(***************************************************************************)
(* dynamic_queries.py: get_trade_counts_by_team.  A league row carries the *)
(* rosters and the transactions stored under its league_id; a roster maps  *)
(* to the owner and the team name its users row gives in that league.      *)
(***************************************************************************)
OwnerInfo(owner_id, team_name) == [owner_id |-> owner_id, team_name |-> team_name]

TradeRow(roster_ids, status) == [type |-> "trade", roster_ids |-> roster_ids, status |-> status]

LeagueRow(rosters, transactions) == [rosters |-> rosters, transactions |-> transactions]

\* .eq('type', 'trade').eq('status', 'complete')
complete_trades(transactions) ==
    SelectSeq(transactions, LAMBDA txn : txn.type = "trade" /\ txn.status = "complete")

\* the keys (owner_id, team_name) counted for one trade, in roster_ids order
RECURSIVE TradeKeys(_, _)
TradeKeys(roster_ids, roster_to_owner) ==
    IF roster_ids = <<>> THEN <<>>
    ELSE (IF Head(roster_ids) \in DOMAIN roster_to_owner
          THEN <<roster_to_owner[Head(roster_ids)]>> ELSE <<>>)
         \o TradeKeys(Tail(roster_ids), roster_to_owner)

\* the keys counted for the trades of one league, in transaction order
RECURSIVE LeagueKeys(_, _)
LeagueKeys(transactions, roster_to_owner) ==
    IF transactions = <<>> THEN <<>>
    ELSE TradeKeys(Head(transactions).roster_ids, roster_to_owner)
         \o LeagueKeys(Tail(transactions), roster_to_owner)

\* the keys counted over all leagues, in season order
RECURSIVE AllKeys(_)
AllKeys(leagues) ==
    IF leagues = <<>> THEN <<>>
    ELSE LeagueKeys(complete_trades(Head(leagues).transactions), Head(leagues).rosters)
         \o AllKeys(Tail(leagues))

\* team_trade_counts as the list of its items, in insertion order
RECURSIVE CountKeys(_)
CountKeys(keys) ==
    IF keys = <<>> THEN <<>>
    ELSE LET n == Len(keys)
             counts == CountKeys(SubSeq(keys, 1, n - 1))
             key == keys[n]
         IN  IF \E i \in 1..Len(counts) : counts[i].key = key
             THEN [i \in 1..Len(counts) |->
                     IF counts[i].key = key
                     THEN [counts[i] EXCEPT !.count = @ + 1] ELSE counts[i]]
             ELSE Append(counts, [key |-> key, count |-> 1])

\* trade_list.sort(key=total_trades, reverse=True): equal counts keep their order
RECURSIVE SortByTrades(_)
SortByTrades(trade_list) ==
    IF trade_list = <<>> THEN <<>>
    ELSE LET n == Len(trade_list)
             sorted == SortByTrades(SubSeq(trade_list, 1, n - 1))
             x == trade_list[n]
             before == Cardinality({i \in 1..Len(sorted) : sorted[i].total_trades >= x.total_trades})
         IN  SubSeq(sorted, 1, before) \o <<x>> \o SubSeq(sorted, before + 1, Len(sorted))

get_trade_counts_by_team(leagues) ==
    LET team_trade_counts == CountKeys(AllKeys(leagues))
        trade_list == [i \in 1..Len(team_trade_counts) |->
                          [team_name |-> team_trade_counts[i].key.team_name,
                           owner_id |-> team_trade_counts[i].key.owner_id,
                           total_trades |-> team_trade_counts[i].count]]
    IN  [total_teams |-> Len(trade_list), teams |-> SortByTrades(trade_list)]

\* the rosters of one league: two owners on rosters 1 and 2 either way round,
\* the first owner under one of two team names
LeagueRosters ==
    {(a :> OwnerInfo("u1", n) @@ (3 - a) :> OwnerInfo("u2", "B")) : a \in 1..2, n \in {"A", "C"}}

TradeRows ==
    {TradeRow(<<1, 2>>, "complete"), TradeRow(<<1, 2>>, "failed"), TradeRow(<<1, 3>>, "complete")}

LeagueRows ==
    {LeagueRow(r, t) : r \in LeagueRosters, t \in UNION {[1..n -> TradeRows] : n \in 0..MaxTrades}}

Call_get_trade_counts_by_team ==
    /\ call = "none"
    /\ \E n \in 0..MaxLeagues : \E leagues \in [1..n -> LeagueRows] :
        /\ call' = "get_trade_counts_by_team"
        /\ arg' = [leagues |-> leagues]
        /\ ret' = get_trade_counts_by_team(leagues)
        /\ ServerIdle

(***************************************************************************)
(* SpecTradeCounts: get_trade_counts_by_team over a few seasons.           *)
(***************************************************************************)
NextTradeCounts ==
    \/ Call_get_trade_counts_by_team
    \/ Return

SpecTradeCounts == Init /\ [][NextTradeCounts]_vars

(***************************************************************************)
(* fantasy_assistant.py chat and fantasy_assistant_v2.py chat_v2, one      *)
(* exchange step by step: the first completion, one step per requested     *)
(* tool call, the second completion.  arg holds what the LLM returns: the  *)
(* tool calls of its first response (none when it answers) with their ids, *)
(* whether the name is in the function map and whether the arguments parse *)
(* as JSON.  ret holds the position in the exchange: the history, the      *)
(* number of tool calls handled, and the log of completions requested and  *)
(* tool calls dispatched.                                                  *)
(***************************************************************************)
Versions == {"chat", "chat_v2"}

ToolCall(id, function, arguments) == [id |-> id, function |-> function, arguments |-> arguments]

\* planning_context, appended by chat_v2 when the query planner is used
PlanningMessage == Entry("assistant", FALSE, Str(0, "planning_context", 1, 0), 0)

\* the tool message of a call: json.dumps(function_response) under its id
ToolResult(id, content) == Entry("tool", FALSE, Str(0, content, 1, 0), id)

FunctionResponse == "function_response"
FunctionFailed == "Function execution failed"

LlmEvent == [kind |-> "llm", id |-> 0, outcome |-> "requested"]
ToolEvent(id, outcome) == [kind |-> "tool", id |-> id, outcome |-> outcome]

Exchange(pc, history, handled, log) ==
    [pc |-> pc, history |-> history, handled |-> handled, log |-> log]

\* no version catches what a tool call raises
catches_nothing(version) == FALSE

\* chat_v2 wraps the lookup and the call of a tool in try/except; chat does not
catches(version) == version = "chat_v2"

\* the tool calls taken from the last to the first
next_tool_call_reversed(tool_calls, handled) == tool_calls[Len(tool_calls) - handled]

\* for tool_call in response_message.tool_calls
next_tool_call(tool_calls, handled) == tool_calls[handled + 1]

\* lines up to and including the first completion and what follows it at once
first_completion(version, message, is_none, conversation_history, planned, first, tool_calls) ==
    LET h0 == IF is_none THEN <<SystemMessage>> ELSE conversation_history
        h1 == Append(h0, UserMessage(message))
        h2 == IF version = "chat_v2" /\ planned THEN Append(h1, PlanningMessage) ELSE h1
    IN  IF first = "raise" THEN Exchange("raised", h2, 0, <<LlmEvent>>)
        ELSE IF tool_calls = <<>>
             THEN Exchange("done", Append(h2, AssistantMessage), 0, <<LlmEvent>>)
             ELSE Exchange("tools", Append(h2, ToolRequestMessage), 0, <<LlmEvent>>)

\* one pass of the loop body; outcome is what the function does when called
execute_tool_call(version, tool_call, outcome, state) ==
    LET appended(content, result) ==
            Exchange("tools", Append(state.history, ToolResult(tool_call.id, content)),
                     state.handled + 1, Append(state.log, ToolEvent(tool_call.id, result)))
        failed(result) ==
            IF catches(version) THEN appended(FunctionFailed, result)
            ELSE Exchange("raised", state.history, state.handled,
                          Append(state.log, ToolEvent(tool_call.id, result)))
    IN  IF tool_call.arguments = "malformed"
        THEN Exchange("raised", state.history, state.handled, state.log)
        ELSE IF tool_call.function = "unknown" THEN failed("KeyError")
        ELSE IF outcome = "raises" THEN failed("raised")
        ELSE appended(FunctionResponse, "returned")

\* the second completion and the final answer
second_completion(second, state) ==
    IF second = "raise"
    THEN Exchange("raised", state.history, state.handled, Append(state.log, LlmEvent))
    ELSE Exchange("done", Append(state.history, AssistantMessage), state.handled,
                  Append(state.log, LlmEvent))

\* the tool calls of a first response: ids in either order
ToolCallLists ==
    UNION {{[i \in 1..n |-> ToolCall(IF up THEN i ELSE n + 1 - i, f[i], a[i])] :
              up \in BOOLEAN, f \in [1..n -> {"known", "unknown"}],
              a \in [1..n -> {"json", "malformed"}]} : n \in 0..MaxCalls}

Call_chat_v2 ==
    /\ call = "none"
    /\ \E version \in Versions, is_none \in BOOLEAN, planned \in BOOLEAN,
          first \in {"raise", "respond"}, tool_calls \in ToolCallLists,
          second \in {"raise", "answer"} :
        LET conversation_history ==
                IF is_none THEN <<>> ELSE <<SystemMessage, UserMessage(Hi), AssistantMessage>>
        IN  /\ version = "chat" => ~planned
            /\ first = "raise" => tool_calls = <<>>
            /\ tool_calls = <<>> => second = "answer"
            /\ call' = "exchange"
            /\ arg' = [version |-> version, message |-> Hi, is_none |-> is_none,
                       conversation_history |-> conversation_history, planned |-> planned,
                       first |-> first, tool_calls |-> tool_calls, second |-> second]
            /\ ret' = first_completion(version, Hi, is_none, conversation_history, planned,
                                       first, tool_calls)
            /\ ServerIdle

ExecuteToolCall ==
    /\ call = "exchange"
    /\ ret.pc = "tools"
    /\ ret.handled < Len(arg.tool_calls)
    /\ \E outcome \in {"returns", "raises"} :
        /\ ret' = execute_tool_call(arg.version, next_tool_call(arg.tool_calls, ret.handled),
                                    outcome, ret)
        /\ UNCHANGED <<call, arg>>
        /\ ServerIdle

SecondCompletion ==
    /\ call = "exchange"
    /\ ret.pc = "tools"
    /\ ret.handled = Len(arg.tool_calls)
    /\ ret' = second_completion(arg.second, ret)
    /\ UNCHANGED <<call, arg>>
    /\ ServerIdle

\* chat or chat_v2 returns or raises; the caller is ready for the next call
FinishExchange ==
    /\ call = "exchange"
    /\ ret.pc \in {"done", "raised"}
    /\ call' = "none"
    /\ arg' = NoBody
    /\ ret' = Raised
    /\ ServerIdle

(***************************************************************************)
(* SpecExchange: exchanges of chat and chat_v2, step by step.              *)
(***************************************************************************)
NextExchange ==
    \/ Call_chat_v2
    \/ ExecuteToolCall
    \/ SecondCompletion
    \/ FinishExchange

SpecExchange == Init /\ [][NextExchange]_vars

(***************************************************************************)
(* sync_sleeper_data.py: full_sync, one stage per step.  The database is   *)
(* kept as, per table, whether it holds nothing, rows of an earlier run    *)
(* ("old") or rows written by this run ("new", "part" when only the first  *)
(* batches of players were written).  arg holds the database the run found;*)
(* ret holds the stages entered so far, the database and the status.       *)
(***************************************************************************)
Stages == <<"leagues", "users", "rosters", "matchups", "transactions", "players">>

\* what a stage can do: write its rows and return; return without writing
\* (every weekly fetch failed or gave nothing: matchups and transactions
\* swallow fetch errors); raise before writing; raise after some batches
\* (players are written 500 at a time)
StageOutcomes(stage) ==
    {"written", "raised"}
    \cup (IF stage \in {"matchups", "transactions"} THEN {"nothing to write"} ELSE {})
    \cup (IF stage = "players" THEN {"raised after a batch"} ELSE {})

Syncing(entered, db, status) == [entered |-> entered, db |-> db, status |-> status]

\* the stages taken from the last to the first
next_stage_reversed(entered) == Stages[Len(Stages) - Len(entered)]

\* the statement of full_sync's try block that comes next
next_stage(entered) == Stages[Len(entered) + 1]

\* one sync_* call inside full_sync's try block, and the except clause
sync_stage(stage, outcome, state) ==
    LET entered == Append(state.entered, stage)
        last_one == Len(entered) = Len(Stages)
    IN  CASE outcome = "written" ->
                Syncing(entered, [state.db EXCEPT ![stage] = "new"],
                        IF last_one THEN "returned" ELSE "running")
          [] outcome = "nothing to write" ->
                Syncing(entered, state.db, IF last_one THEN "returned" ELSE "running")
          [] outcome = "raised after a batch" ->
                Syncing(entered, [state.db EXCEPT ![stage] = "part"], "raised")
          [] OTHER -> Syncing(entered, state.db, "raised")

Call_full_sync ==
    /\ call = "none"
    /\ \E db \in [Range(Stages) -> {"empty", "old"}] :
        /\ call' = "full_sync"
        /\ arg' = [db |-> db]
        /\ ret' = Syncing(<<>>, db, "running")
        /\ ServerIdle

SyncStage ==
    /\ call = "full_sync"
    /\ ret.status = "running"
    /\ \E outcome \in StageOutcomes(next_stage(ret.entered)) :
        /\ ret' = sync_stage(next_stage(ret.entered), outcome, ret)
        /\ UNCHANGED <<call, arg>>
        /\ ServerIdle

\* full_sync returns or re-raises; the operator is ready for the next run
FinishSync ==
    /\ call = "full_sync"
    /\ ret.status # "running"
    /\ call' = "none"
    /\ arg' = NoBody
    /\ ret' = Raised
    /\ ServerIdle

(***************************************************************************)
(* SpecSync: runs of full_sync.                                            *)
(***************************************************************************)
NextSync ==
    \/ Call_full_sync
    \/ SyncStage
    \/ FinishSync

SpecSync == Init /\ [][NextSync]_vars

(***************************************************************************)
(* middleware.py: rate_limit on one route, called by one client again and  *)
(* again while the clock moves.  arg holds the decorator's parameters; ret *)
(* holds the clock, the buckets and, of the latest call, whether it was    *)
(* admitted, the Retry-After it announced and, for a call that follows a   *)
(* rejection, how many ticks the client had waited.                        *)
(***************************************************************************)
Visiting(t, storage, admitted, retry_after, waited) ==
    [t |-> t, storage |-> storage, admitted |-> admitted, retry_after |-> retry_after,
     waited |-> waited]

\* the clock readings explored for a window: two windows and a second
LastTick(window_seconds) == 2 * WindowTicks(window_seconds) + TicksPerSecond

Call_rate_limit ==
    /\ call = "none"
    /\ \E max_requests \in 1..2, window_seconds \in 1..RetryWindowSeconds :
        /\ call' = "rate_limit"
        /\ arg' = [max_requests |-> max_requests, window_seconds |-> window_seconds]
        /\ ret' = Visiting(0, [k \in RateKeys |-> <<>>], TRUE, 0, 0)
        /\ ServerIdle

\* time passes between two calls
Wait ==
    /\ call = "rate_limit"
    /\ ret.t < LastTick(arg.window_seconds)
    /\ ret' = [ret EXCEPT !.t = @ + 1, !.waited = @ + 1]
    /\ UNCHANGED <<call, arg>>
    /\ ServerIdle

\* the client calls the route
Visit ==
    /\ call = "rate_limit"
    /\ LET rl == rate_limit(ret.storage, "c1", ret.t, arg.max_requests, arg.window_seconds, "chat")
       IN  ret' = Visiting(ret.t, rl.storage, rl.admitted, rl.retry_after, 0)
    /\ UNCHANGED <<call, arg>>
    /\ ServerIdle

\* the client goes away
Leave ==
    /\ call = "rate_limit"
    /\ ret.t = LastTick(arg.window_seconds)
    /\ call' = "none"
    /\ arg' = NoBody
    /\ ret' = Raised
    /\ ServerIdle

(***************************************************************************)
(* SpecVisits: one client against the limiter over two windows.            *)
(***************************************************************************)
NextVisits ==
    \/ Call_rate_limit
    \/ Wait
    \/ Visit
    \/ Leave

SpecVisits == Init /\ [][NextVisits]_vars

(***************************************************************************)
(* middleware.py: rate_limit called for one client and one route by        *)
(* several worker threads at once.  Nothing in the wrapper is locked, so a *)
(* thread may be preempted between any two of its statements: building the *)
(* pruned list, storing it, counting, appending.  Worker w reads the clock *)
(* as w + 1; the bucket may hold the earlier timestamps 0 (expired) and 1. *)
(* ret holds the bucket, each worker's position and locals, and whether    *)
(* two workers were ever inside the wrapper together.                      *)
(***************************************************************************)
Workers == 1..MaxWorkers

\* the cutoff of every worker's prune: timestamp 0 is outside the window
Cutoff == 0

Racing(bucket, pc, kept, overlapped) ==
    [bucket |-> bucket, pc |-> pc, kept |-> kept, overlapped |-> overlapped]

\* the worker takes a step while another worker is inside the wrapper
Overlaps(state, w) ==
    state.overlapped
    \/ \E v \in Workers \ {w} : state.pc[v] \notin {"waiting", "admitted", "rejected"}

\* [req_time for req_time in rate_limit_storage[rate_key] if req_time > cutoff_time]
prune_read(state, w) ==
    [state EXCEPT !.pc[w] = "store", !.kept[w] = Prune(state.bucket, Cutoff),
                  !.overlapped = Overlaps(state, w)]

\* rate_limit_storage[rate_key] = <the list just built>
prune_store(state, w) ==
    [state EXCEPT !.pc[w] = "count", !.bucket = state.kept[w],
                  !.overlapped = Overlaps(state, w)]

\* request_count = len(rate_limit_storage[rate_key]); if request_count >= max_requests
count_check(state, w, max_requests) ==
    [state EXCEPT !.pc[w] = IF Len(state.bucket) >= max_requests THEN "rejected" ELSE "append",
                  !.overlapped = Overlaps(state, w)]

\* rate_limit_storage[rate_key].append(now)
append_now(state, w) ==
    [state EXCEPT !.pc[w] = "admitted", !.bucket = Append(state.bucket, w + 1),
                  !.overlapped = Overlaps(state, w)]

Call_rate_limit_concurrently ==
    /\ call = "none"
    /\ \E max_requests \in 1..2, bucket \in {<<>>, <<0>>, <<1>>, <<0, 1>>} :
        /\ call' = "rate_limit_concurrently"
        /\ arg' = [max_requests |-> max_requests, bucket |-> bucket]
        /\ ret' = Racing(bucket, [w \in Workers |-> "waiting"], [w \in Workers |-> <<>>], FALSE)
        /\ ServerIdle

WorkerStep ==
    /\ call = "rate_limit_concurrently"
    /\ \E w \in Workers :
        /\ ret.pc[w] \notin {"admitted", "rejected"}
        /\ ret' = CASE ret.pc[w] = "waiting" -> prune_read(ret, w)
                    [] ret.pc[w] = "store" -> prune_store(ret, w)
                    [] ret.pc[w] = "count" -> count_check(ret, w, arg.max_requests)
                    [] OTHER -> append_now(ret, w)
    /\ UNCHANGED <<call, arg>>
    /\ ServerIdle

\* every worker has answered
WorkersDone ==
    /\ call = "rate_limit_concurrently"
    /\ \A w \in Workers : ret.pc[w] \in {"admitted", "rejected"}
    /\ call' = "none"
    /\ arg' = NoBody
    /\ ret' = Raised
    /\ ServerIdle

(***************************************************************************)
(* SpecWorkers: concurrent calls of one rate-limited route by one client.  *)
(***************************************************************************)
NextWorkers ==
    \/ Call_rate_limit_concurrently
    \/ WorkerStep
    \/ WorkersDone

SpecWorkers == Init /\ [][NextWorkers]_vars

(***************************************************************************)
(* api_server.py chat_endpoint and fantasy_assistant.py chat: two chat     *)
(* requests for one session id on two threads.  Python lists are objects:  *)
(* heap maps a list's identity to its contents, `stored` is the identity   *)
(* conversations holds for the session (0 for no entry), ref[r] the one    *)
(* request r works on.  List 3 is the history stored before the requests,  *)
(* list r the one request r creates when it finds no entry.  Between two   *)
(* statements a thread may be preempted; the LLM call is such a point.     *)
(***************************************************************************)
ChatRequests == 1..2

\* the messages of request r's exchange
AskedBy(r) == UserMessage(Str(0, "m", r, 0))
AnswerTo(r) == Entry("assistant", FALSE, Str(0, "answer", r, 0), 0)

StoredBefore == <<SystemMessage, UserMessage(Hi), AssistantMessage>>

Sharing(heap, stored, ref, pc, raced) ==
    [heap |-> heap, stored |-> stored, ref |-> ref, pc |-> pc, raced |-> raced]

\* the other request is between its read and its write of the store
OtherInside(state, r) == state.pc[3 - r] \in {"user", "answer", "store"}

\* conversation_history = conversations.get(session_id)
get_history(state, r) ==
    [state EXCEPT !.ref[r] = state.stored, !.pc[r] = "user",
                  !.raced = @ \/ (state.stored = 0 /\ OtherInside(state, r))]

\* the user message dropped instead of appended
append_user_dropped(history, r) == history

\* conversation_history.append({"role": "user", "content": message})
append_user(history, r) == Append(history, AskedBy(r))

\* chat() up to the completion call: a new list when there is no history
begin_chat(state, r) ==
    LET fresh == state.ref[r] = 0
        list == IF fresh THEN r ELSE state.ref[r]
        history == IF fresh THEN <<SystemMessage>> ELSE state.heap[list]
    IN  [state EXCEPT !.ref[r] = list, !.pc[r] = "answer",
                      !.heap[list] = append_user(history, r),
                      !.raced = @ \/ (~fresh /\ state.pc[3 - r] = "answer"
                                      /\ state.ref[3 - r] = list)]

\* the completion returns and chat() appends the answer, or it raises
end_chat(state, r, llm) ==
    IF llm = "raise" THEN [state EXCEPT !.pc[r] = "failed"]
    ELSE [state EXCEPT !.pc[r] = "store",
                       !.heap[state.ref[r]] = Append(@, AnswerTo(r))]

\* conversations[session_id] = updated_history, and the 200 response
store_history(state, r) ==
    [state EXCEPT !.stored = state.ref[r], !.pc[r] = "succeeded"]

Call_chat_endpoint_concurrently ==
    /\ call = "none"
    /\ \E existing \in BOOLEAN, llm \in [ChatRequests -> {"answer", "raise"}] :
        /\ call' = "chat_endpoint_concurrently"
        /\ arg' = [existing |-> existing, llm |-> llm]
        /\ ret' = Sharing([l \in 1..3 |-> IF l = 3 /\ existing THEN StoredBefore ELSE <<>>],
                          IF existing THEN 3 ELSE 0,
                          [r \in ChatRequests |-> 0], [r \in ChatRequests |-> "get"], FALSE)
        /\ ServerIdle

ChatThreadStep ==
    /\ call = "chat_endpoint_concurrently"
    /\ \E r \in ChatRequests :
        /\ ret.pc[r] \notin {"succeeded", "failed"}
        /\ ret' = CASE ret.pc[r] = "get" -> get_history(ret, r)
                    [] ret.pc[r] = "user" -> begin_chat(ret, r)
                    [] ret.pc[r] = "answer" -> end_chat(ret, r, arg.llm[r])
                    [] OTHER -> store_history(ret, r)
    /\ UNCHANGED <<call, arg>>
    /\ ServerIdle

\* both requests have been answered
ChatThreadsDone ==
    /\ call = "chat_endpoint_concurrently"
    /\ \A r \in ChatRequests : ret.pc[r] \in {"succeeded", "failed"}
    /\ call' = "none"
    /\ arg' = NoBody
    /\ ret' = Raised
    /\ ServerIdle

(***************************************************************************)
(* SpecSharing: two concurrent chat requests for one session id.           *)
(***************************************************************************)
NextSharing ==
    \/ Call_chat_endpoint_concurrently
    \/ ChatThreadStep
    \/ ChatThreadsDone

SpecSharing == Init /\ [][NextSharing]_vars

(***************************************************************************)
(* SpecSessions: chats and resets that name their session in every way     *)
(* the chat validator accepts.                                             *)
(***************************************************************************)
\* session_id values validate_session_id accepts: no key, null, "", a
\* string with whitespace before or after it, a plain string
AcceptedSessionInputs ==
    {Absent, Null, Str(0, "", 0, 0), Str(MaxPad, "t1", 2, 0), Str(0, "t1", 2, MaxPad), T1}

SessionChatBodies == {Object(Hi, s, FALSE) : s \in AcceptedSessionInputs}

SessionResetBodies == {Object(Absent, s, FALSE) : s \in AcceptedSessionInputs}

NextSessions ==
    \/ ChatRequest(SessionChatBodies, LimiterPlans)
    \/ ResetRequest(SessionResetBodies)

SpecSessions == Init /\ [][NextSessions]_vars

(***************************************************************************)
(* Properties.                                                             *)
(***************************************************************************)
\* a step that handles a request
Request == last'.parity # last.parity

\* the timestamps of a bucket that have not expired at time t
Live(bucket, t) ==
    Cardinality({i \in DOMAIN bucket : bucket[i] + WindowSeconds * TicksPerSecond > t})

ChatBucket(storage, client) == storage[<<"chat", client>>]

\* C1: on the chat route, limited to ChatMaxRequests requests per window, a
\* request that finds ChatMaxRequests - 1 unexpired timestamps of its client (the
\* N-th in the window) is admitted and recorded, and a request that finds
\* ChatMaxRequests unexpired timestamps (the N+1-th) is answered 429 with a
\* Retry-After of at least 1 second.
C1_Threshold ==
    [][(Request /\ last'.route = "chat") =>
        LET n == Live(ChatBucket(rate_limit_storage, last'.client), now)
        IN  /\ n = ChatMaxRequests - 1 =>
                /\ last'.response.status # 429
                /\ Live(ChatBucket(rate_limit_storage', last'.client), now) = ChatMaxRequests
            /\ n = ChatMaxRequests =>
                /\ last'.response.status = 429
                /\ last'.response.retry_after >= 1
                /\ Live(ChatBucket(rate_limit_storage', last'.client), now) = ChatMaxRequests
    ]_vars

\* C1 witness: the N+1-th request of a window was just rejected with Retry-After >= 1
C1_Witness ==
    /\ last.route = "chat"
    /\ last.response.status = 429
    /\ last.response.retry_after >= 1
    /\ Len(ChatBucket(rate_limit_storage, last.client)) = ChatMaxRequests

InGates(gate) == \E i \in DOMAIN last.gates : last.gates[i] = gate

\* C2: a chat request that passed validation and whose handler raised (the
\* assistant or anything else in it) is answered 500 "Failed to process chat
\* message", never a 4xx.
C2_ChatFailureIs500 ==
    (last.route = "chat" /\ InGates("chat_endpoint") /\ last.response.status # 200) =>
        /\ last.response.status = 500
        /\ last.response.error.text = "Failed to process chat message"

\* the session a chat request is filed under
ChatSession(raw) == validate_session_id(Get(raw)).value

\* C3: after the k-th consecutive exchange the assistant answered on a fresh
\* session, tool calls or not, the response is 200 with message_count = 2k.
C3_MessageCount ==
    (last.route = "chat" /\ last.assistant = "returned"
        /\ exchanges[ChatSession(last.session)].answered >= 1) =>
        /\ last.response.status = 200
        /\ last.response.message_count = 2 * exchanges[ChatSession(last.session)].answered

\* C3 without the tool calls: the count is 2k when no exchange of the session
\* requested a tool call
C3_WithoutTools ==
    (last.route = "chat" /\ last.assistant = "returned"
        /\ exchanges[ChatSession(last.session)].answered >= 1
        /\ ~HasNoGet(conversations[ChatSession(last.session)])) =>
        /\ last.response.status = 200
        /\ last.response.message_count = 2 * exchanges[ChatSession(last.session)].answered

\* C4: messages_cleared of a reset equals the message_count that the session's
\* last successful exchange reported.
C4_ClearedEqualsCount ==
    (last.route = "reset" /\ last.response.status = 200 /\ last.prior_count >= 0) =>
        last.response.messages_cleared = last.prior_count

\* a reset request that names a session: no session id (the default session)
\* or a string of at most 100 characters
NamesSession(request) ==
    /\ request.route = "reset"
    /\ request.body_kind # "other"
    /\ \/ request.session.kind = "absent"
       \/ request.session.kind = "str" /\ PyLen(request.session) <= 100

\* the store key of such a reset request
Named(request) ==
    IF request.session.kind = "absent" THEN Str(0, "default", 7, 0) ELSE request.session

\* a reset answered 200 leaves its session absent from the store
ResetLeavesAbsent ==
    (NamesSession(last) /\ last.response.status = 200) =>
        Named(last) \notin DOMAIN conversations

\* C5 as stated: two resets in a row for the same session id both answer 200
\* and the second reports messages_cleared 0; a reset of a session that is not
\* stored answers 200 with 0; after a reset the session is absent from the store.
C5_ResetIdempotent ==
    /\ []ResetLeavesAbsent
    /\ [][(Request /\ NamesSession(last'))
            => /\ (NamesSession(last) /\ last'.session = last.session)
                    => /\ last.response.status = 200
                       /\ last'.response.status = 200
                       /\ last'.response.messages_cleared = 0
               /\ Named(last') \notin DOMAIN conversations
                    => /\ last'.response.status = 200
                       /\ last'.response.messages_cleared = 0
         ]_vars

\* C5 amended: the same of the resets that the rate limiter admits (a reset
\* beyond the route's limit is answered 429 and clears nothing).
C5_ResetIdempotentAdmitted ==
    /\ []ResetLeavesAbsent
    /\ [][(Request /\ NamesSession(last') /\ last'.response.status # 429)
            => /\ (NamesSession(last) /\ last'.session = last.session
                        /\ last.response.status # 429)
                    => /\ last.response.status = 200
                       /\ last'.response.status = 200
                       /\ last'.response.messages_cleared = 0
                       /\ Named(last') \notin DOMAIN conversations'
               /\ Named(last') \notin DOMAIN conversations
                    => /\ last'.response.status = 200
                       /\ last'.response.messages_cleared = 0
         ]_vars

\* C5 witness: a reset that cleared a stored history was repeated and cleared nothing
C5_Witness ==
    /\ NamesSession(last)
    /\ last.prev_cleared > 0
    /\ last.response.status = 200
    /\ last.response.messages_cleared = 0

ChatGates == <<"rate_limit", "request_logger", "validate_request", "chat_endpoint", "chat">>

\* the gates of a chat request are entered in the fixed order, and a request
\* answered 429 enters the limiter alone
GateOrder ==
    last.route = "chat" =>
        /\ Len(last.gates) >= 1
        /\ Len(last.gates) <= Len(ChatGates)
        /\ \A i \in DOMAIN last.gates : last.gates[i] = ChatGates[i]
        /\ last.response.status = 429 =>
                (last.gates = <<"rate_limit">> /\ last.assistant = "not called")

\* what C7 says of a request whose body fails validation; with_field says
\* whether every such answer must carry the field key
FailedValidation(with_field) ==
    (Request /\ last'.route = "chat" /\ ~last'.body_ok /\ last'.response.status # 429) =>
        /\ last'.response.status = 400
        /\ last'.response.error.text # ""
        /\ with_field \/ last'.body_kind # "other" => last'.response.has_field
        /\ last'.body_kind = "other" =>
                last'.response.error.text = "Invalid request data"
        /\ last'.gates = <<"rate_limit", "request_logger", "validate_request">>
        /\ last'.assistant = "not called"
        /\ conversations' = conversations
        /\ LET before == ChatBucket(rate_limit_storage, last'.client)
               after == ChatBucket(rate_limit_storage', last'.client)
           IN  /\ Len(after) = Live(before, now) + 1
               /\ after[Len(after)] = now

OnlyMessage ==
    /\ call = "validate_chat_request"
    /\ arg.kind = "object"
    /\ arg.message.kind = "str" /\ arg.message.lead = 0 /\ arg.message.trail = 0
    /\ arg.session_id.kind = "absent"
    /\ ~arg.extra

\* C6: validate_chat_request({message: "x"*L}) succeeds for 1 <= L <= 5000 and
\* fails for L = 0 and for L > 5000; the failure for L > 5000 reports "at most
\* 5000 characters" and the failure for L = 0 reports "cannot be empty".
C6_LengthBoundary ==
    OnlyMessage =>
        LET L == arg.message.len
        IN  /\ (1 <= L /\ L <= 5000) => ret.ok
            /\ L > 5000 => /\ ~ret.ok /\ ~ret.raised
                           /\ ret.error.text = "must be at most" /\ ret.error.n = 5000
            /\ L = 0 => /\ ~ret.ok /\ ~ret.raised
                        /\ ret.error.text = "cannot be empty"

\* the part of C6 the code keeps: which lengths are accepted, and the message
\* for a length over the limit
C6_Accepted ==
    OnlyMessage =>
        LET L == arg.message.len
        IN  /\ ret.ok <=> (1 <= L /\ L <= 5000)
            /\ L > 5000 => ret.error.text = "must be at most" /\ ret.error.n = 5000
            /\ L = 0 => ret.error.text = "Message is required"

\* a value validate_session_id reads as no session id: None, "", 0
NoSessionId(v) == v.kind \in {"absent", "null"} \/ (v.kind = "str" /\ PyLen(v) = 0)

\* what C8 says of the session id `given` validated to `result`
SessionIdResult(given, result) ==
    /\ NoSessionId(given) => result = Str(0, "default", 7, 0)
    /\ given.kind = "str" /\ PyLen(given) > 0 =>
            /\ result.text = given.text /\ result.len = given.len
            /\ PyLen(given) <= 100
    /\ result.kind = "str" /\ result.lead = 0 /\ result.trail = 0
    /\ PyLen(result) <= 100

\* C8: a chat request without session_id is validated to "default";
\* validate_session_id(None) and validate_session_id("") return "default"; any
\* other accepted session id is returned trimmed, with at most 100 characters.
C8_SessionIdDefaults ==
    /\ call = "validate_session_id" =>
            /\ NoSessionId(arg) => ret.ok
            /\ ret.ok => SessionIdResult(arg, ret.value)
    /\ (call = "validate_chat_request" /\ ret.ok) =>
            SessionIdResult(arg.session_id, ret.session_id)

\* C8 witness: a padded session id of exactly 100 characters was accepted and
\* returned without its padding
C8_Witness ==
    /\ call = "validate_session_id"
    /\ arg.kind = "str" /\ arg.lead > 0 /\ PyLen(arg) = 100
    /\ ret.ok
    /\ ret.value = Strip(arg)

\* the checks a health run is to make
ChecksToRun(include_external) ==
    IF include_external THEN {"memory", "disk", "database", "openai"} ELSE {"memory", "disk"}

\* C9: the aggregate health status is the worst of the checks that were run
\* (memory and disk always, database and openai only with include_external):
\* unhealthy if any is unhealthy, degraded if none is unhealthy and one is
\* degraded, healthy only if all are healthy; a check that was not run has no
\* influence.
C9_WorstOfRunChecks ==
    call = "run_all_health_checks" =>
        LET run == DOMAIN ret.checks
            unhealthy == \E name \in run : ret.checks[name] = "unhealthy"
            degraded == \E name \in run : ret.checks[name] = "degraded"
        IN  /\ run = ChecksToRun(arg.include_external)
            /\ \A name \in run : ret.checks[name] \in {"healthy", "degraded", "unhealthy"}
            /\ ret.status = "unhealthy" <=> unhealthy
            /\ ret.status = "degraded" <=> (~unhealthy /\ degraded)
            /\ ret.status = "healthy" <=> \A name \in run : ret.checks[name] = "healthy"
            /\ ~arg.include_external =>
                    ret.status = (IF "unhealthy" \in {ret.checks["memory"], ret.checks["disk"]}
                                  THEN "unhealthy"
                                  ELSE IF "degraded" \in {ret.checks["memory"], ret.checks["disk"]}
                                  THEN "degraded" ELSE "healthy")

\* C9 witness: with the database and the LLM both down but not checked, a degraded
\* disk alone made the aggregate degraded
C9_Witness ==
    /\ call = "run_all_health_checks"
    /\ ~arg.include_external
    /\ arg.env.database = "raise" /\ arg.env.openai = "raise"
    /\ ret.checks["memory"] = "healthy"
    /\ ret.checks["disk"] = "degraded"
    /\ ret.status = "degraded"

\* the roster ids that are values of adds or drops, or the receiving owner of a pick
Participants(txn) ==
    {txn.adds[i].roster_id : i \in DOMAIN txn.adds}
    \cup {txn.drops[i].roster_id : i \in DOMAIN txn.drops}
    \cup {txn.draft_picks[i].owner_id :
            i \in {j \in DOMAIN txn.draft_picks : txn.draft_picks[j].owner_id # 0}}

\* C10: in every trade an entry point renders, every roster id that is a value
\* of adds or of drops, or the receiving owner of a draft pick, has exactly one
\* entry among the rendered teams.
C10_ParticipantsOnce ==
    call \in {"get_recent_trades", "get_player_trade_history", "get_team_trade_history"} =>
        \A k \in DOMAIN ret.trades :
            \A roster_id \in Participants(arg) :
                Cardinality({i \in DOMAIN ret.trades[k].teams :
                                ret.trades[k].teams[i].roster_id = roster_id}) = 1

\* C10 witness: a rendered three-team trade in which one team takes part only as the
\* receiver of a draft pick
C10_Witness ==
    /\ call = "get_team_trade_history"
    /\ Len(ret.trades) = 1
    /\ Len(ret.trades[1].teams) = 3
    /\ \E i \in DOMAIN arg.draft_picks :
            /\ arg.draft_picks[i].owner_id # 0
            /\ \A j \in DOMAIN arg.roster_ids : arg.roster_ids[j] # arg.draft_picks[i].owner_id
            /\ \A j \in DOMAIN arg.adds : arg.adds[j].roster_id # arg.draft_picks[i].owner_id
            /\ \A j \in DOMAIN arg.drops : arg.drops[j].roster_id # arg.draft_picks[i].owner_id

\* the search term, lowered and trimmed as the search does, matches the name:
\* the name is not empty and the two are equal, or one contains the other, or
\* they share a word
TermMatches(term, name) ==
    LET t == StripChars(Lower(term))
        n == Lower(OrEmpty(name))
    IN  /\ n # <<>>
        /\ \/ t = n
           \/ Contains(n, t)
           \/ Contains(t, n)
           \/ Words(t) \cap Words(n) # {}

\* no character of the term occurs in a name of the roster
NoCommonChar(term, roster) ==
    /\ Chars(Lower(term)) \cap Chars(Lower(OrEmpty(roster.team_name))) = {}
    /\ Chars(Lower(term)) \cap Chars(Lower(OrEmpty(roster.display_name))) = {}

\* C11: find_team_by_name never returns an empty list, and on every rosters
\* table, rosters with an empty or null team name or display name included, a
\* term that matches no team's team name or display name returns exactly one
\* element, which carries an error key.
C11_NotFoundMarker ==
    call = "find_team_by_name" =>
        /\ ret # <<>>
        /\ (\A i \in DOMAIN arg.rosters :
                /\ ~TermMatches(arg.team_name_search, arg.rosters[i].team_name)
                /\ ~TermMatches(arg.team_name_search, arg.rosters[i].display_name)
                /\ NoCommonChar(arg.team_name_search, arg.rosters[i]))
            => (Len(ret) = 1 /\ ret[1].error)

\* the part of C11 that holds: the result is never empty, and a term that
\* matches nothing returns the error element when every roster has a
\* non-empty team name and a non-empty display name
C11_NamedTeams ==
    call = "find_team_by_name" =>
        /\ ret # <<>>
        /\ (\A i \in DOMAIN arg.rosters :
                /\ OrEmpty(arg.rosters[i].team_name) # <<>>
                /\ OrEmpty(arg.rosters[i].display_name) # <<>>
                /\ ~TermMatches(arg.team_name_search, arg.rosters[i].team_name)
                /\ ~TermMatches(arg.team_name_search, arg.rosters[i].display_name)
                /\ NoCommonChar(arg.team_name_search, arg.rosters[i]))
            => (Len(ret) = 1 /\ ret[1].error)

\* the returned head-to-head entries that show the row
EntriesOf(row, matchups) ==
    {k \in DOMAIN matchups :
        /\ matchups[k].matchup_id = row.matchup_id
        /\ row.roster_id \in {matchups[k].team1, matchups[k].team2}}

\* the rows that share the row's matchup_id
GroupSize(rows, row) == Cardinality({j \in DOMAIN rows : rows[j].matchup_id = row.matchup_id})

\* C12: weekly matchup formatting never silently drops a row: every fetched
\* row appears in exactly one returned head-to-head entry (its matchup_id
\* groups exactly two rows), or an error is reported for its group.
C12_NoRowDropped ==
    call \in {"get_weekly_matchups", "get_matchup_results"} =>
        \A i \in DOMAIN arg.rows :
            \/ ret.error
            \/ /\ GroupSize(arg.rows, arg.rows[i]) = 2
               /\ Cardinality(EntriesOf(arg.rows[i], ret.matchups)) = 1

\* the part of C12 that holds: a row whose matchup_id groups exactly two rows
\* appears in exactly one entry unless the call reports an error, and no other
\* row appears in any entry
C12_PairsShown ==
    call \in {"get_weekly_matchups", "get_matchup_results"} =>
        \A i \in DOMAIN arg.rows :
            \/ ret.error
            \/ Cardinality(EntriesOf(arg.rows[i], ret.matchups))
                    = (IF GroupSize(arg.rows, arg.rows[i]) = 2 THEN 1 ELSE 0)

\* a call of make_request_with_retry with the default max_retries
DefaultRetry == call = "make_request_with_retry" /\ arg.max_retries = 3

\* what C13 says of the attempts and the waits; ends says how a call whose
\* attempts all failed may end
RetryContract(ends) ==
    DefaultRetry =>
        LET n == Len(ret.outcomes)
            failed == {k \in 1..n : ret.outcomes[k] # "ok"}
        IN  /\ n <= 3
            /\ \A k \in 1..(n - 1) : ret.outcomes[k] # "ok"
            /\ ret.status = "returned" <=> (n >= 1 /\ ret.outcomes[n] = "ok")
            /\ ret.status = "running" <=> (n < 3 /\ failed = 1..n)
            /\ ret.slept = [k \in (failed \cap (1..2)) |-> 2 * k]
            /\ (n = 3 /\ failed = 1..3) => ret.status \in ends

\* C13: make_request_with_retry makes at most 3 attempts, returns the first
\* successful response without further attempts, waits 2*k seconds after the
\* k-th failed attempt for k < 3, and raises when all 3 attempts fail, by
\* timeout or by any other request failure.
C13_RetryThenRaise == RetryContract({"raised"})

\* the part of C13 that holds: the attempts, the first success and the waits
\* are as stated, and a call whose attempts all failed raises or returns None
C13_RetryThenEnd == RetryContract({"raised", "returned None"})

\* the requirements carry distinct data-type tags
DistinctTags(requirements) ==
    \A i, j \in DOMAIN requirements :
        i # j => requirements[i].data_type # requirements[j].data_type

\* the context holds the payload of every requirement whose fetch succeeded
\* and one error entry for every requirement whose fetch failed
KeepsAll(requirements, context) ==
    \A i \in DOMAIN requirements :
        LET req == requirements[i]
            errors == {k \in DOMAIN context.errors :
                            context.errors[k].data_type = req.data_type}
        IN  IF req.fetch = "ok"
            THEN /\ req.data_type \in DOMAIN context.fetched_data
                 /\ context.fetched_data[req.data_type] = req.position
            ELSE Cardinality(errors) = 1

\* C14: in answer_question_data_first, for requirements with distinct
\* data-type tags, the context handed to the answer stage holds the payload of
\* every requirement whose fetch succeeded and one error entry for every
\* requirement whose fetch failed or named an unknown function.
C14_ContextKeepsAll ==
    (call = "answer_question_data_first" /\ DistinctTags(arg)) => KeepsAll(arg, ret)

\* the same of fetch_all_data called with the whole list, which holds
C14_FetchKeepsAll ==
    (call = "fetch_all_data" /\ DistinctTags(arg)) => KeepsAll(arg, ret)

\* chat_v3 was called in data-first mode and the engine failed
EngineFailed == call = "chat_v3" /\ arg.use_data_first /\ arg.engine = "raise"

\* C15: when the data-first engine fails during chat_v3, chat_v3 falls back to
\* exactly one direct LLM call that uses only the current message and a
\* minimal system prompt, returns that call's answer with an explicit notice
\* that the fallback was taken, and does not raise.
C15_FallbackCall ==
    EngineFailed =>
        /\ ~ret.raised
        /\ Len(ret.llm_calls) = 1
        /\ ret.llm_calls[1].messages = <<[role |-> "user", obj |-> FALSE,
                                          content |-> arg.message, tool_call_id |-> 0]>>
        /\ ret.response.source = "llm"
        /\ ret.response.notice

\* the part of C15 that holds: chat_v3 does not raise and its reply says that
\* the data-first approach failed
C15_FallbackNotice ==
    EngineFailed => (~ret.raised /\ ret.response.notice)

\* the keys a request supplies, by channel; an Authorization header carries
\* a key only in its Bearer form
SuppliedKeys ==
    (IF KeyTruthy(arg.x_api_key) THEN {arg.x_api_key[1]} ELSE {})
    \cup (IF arg.authorization # <<>> /\ arg.authorization[1].prefix = "Bearer "
             /\ arg.authorization[1].rest # ""
          THEN {arg.authorization[1].rest} ELSE {})
    \cup (IF KeyTruthy(arg.query) THEN {arg.query[1]} ELSE {})

\* the channels on which something was sent
ChannelsUsed ==
    (IF KeyTruthy(arg.x_api_key) THEN {"X-API-Key"} ELSE {})
    \cup (IF AuthTruthy(arg.authorization) THEN {"Authorization"} ELSE {})
    \cup (IF KeyTruthy(arg.query) THEN {"api_key"} ELSE {})

\* C16: with an API key configured, the gate runs the handler for every
\* request that supplies the matching key through one of the three channels
\* and answers 401 without running the handler for every request that
\* supplies no key or only mismatched keys; with no key configured it runs
\* the handler for every request.
C16_KeyGate ==
    call = "require_api_key" =>
        IF KeyTruthy(arg.configured_api_key)
        THEN IF arg.configured_api_key[1] \in SuppliedKeys
             THEN ret.handler_ran
             ELSE ret.status = 401 /\ ~ret.handler_ran
        ELSE ret.handler_ran

\* the part of C16 that holds: the same, for requests that send something on
\* at most one channel
C16_SingleChannel ==
    (call = "require_api_key" /\ Cardinality(ChannelsUsed) <= 1) =>
        IF KeyTruthy(arg.configured_api_key)
        THEN IF arg.configured_api_key[1] \in SuppliedKeys
             THEN ret.handler_ran
             ELSE ret.status = 401 /\ ~ret.handler_ran
        ELSE ret.handler_ran

\* true points-for of the roster, in hundredths, from the rosters table
TruePoints(roster_id) ==
    LET row == CHOOSE r \in Range(arg.table) : r.roster_id = roster_id
    IN  row.fpts * 100 + row.fpts_decimal

\* every roster of the table is in the standings exactly once
EveryRosterOnce ==
    /\ Len(ret.standings) = Len(arg.table)
    /\ \A r \in Range(arg.table) : \E i \in 1..Len(ret.standings) : ret.standings[i].roster_id = r.roster_id

\* C17: get_standings returns every roster exactly once, ordered by wins
\* descending and, among equal wins, by true points-for (integer part +
\* hundredths / 100) descending.
C17_Standings ==
    call = "get_standings" =>
        /\ EveryRosterOnce
        /\ \A i, j \in 1..Len(ret.standings) :
            i < j => LET x == ret.standings[i]
                         y == ret.standings[j]
                     IN  \/ x.wins > y.wins
                         \/ x.wins = y.wins /\ TruePoints(x.roster_id) >= TruePoints(y.roster_id)

\* the part of C17 that holds: every roster once, more wins first, and among
\* equal wins the larger integer part of points-for first
C17_WinsThenWholePoints ==
    call = "get_standings" =>
        /\ EveryRosterOnce
        /\ \A i, j \in 1..Len(ret.standings) :
            i < j => LET x == ret.standings[i]
                         y == ret.standings[j]
                     IN  \/ x.wins > y.wins
                         \/ x.wins = y.wins /\ x.points_for >= y.points_for

\* the complete trades, as <<league, position>>, in which a roster owned by
\* the owner (under the team name, when one is given) took part
TradesTaken(owner_id, names) ==
    {p \in (1..Len(arg.leagues)) \X (1..MaxTrades + 1) :
        /\ p[2] <= Len(arg.leagues[p[1]].transactions)
        /\ LET league == arg.leagues[p[1]]
               txn == league.transactions[p[2]]
           IN  /\ txn.status = "complete"
               /\ \E r \in Range(txn.roster_ids) \cap DOMAIN league.rosters :
                    /\ league.rosters[r].owner_id = owner_id
                    /\ league.rosters[r].team_name \in names}

AllNames == {"A", "B", "C"}

\* C18: get_trade_counts_by_team returns exactly one entry per owner, whose
\* total_trades is the number of complete trades, over every league row, in
\* which a roster of that owner took part, also when the owner's roster id
\* or team name differs between seasons.
C18_OneEntryPerOwner ==
    call = "get_trade_counts_by_team" =>
        /\ \A i, j \in 1..Len(ret.teams) :
            ret.teams[i].owner_id = ret.teams[j].owner_id => i = j
        /\ \A i \in 1..Len(ret.teams) :
            ret.teams[i].total_trades = Cardinality(TradesTaken(ret.teams[i].owner_id, AllNames))
        /\ \A o \in {"u1", "u2"} :
            TradesTaken(o, AllNames) # {} => \E i \in 1..Len(ret.teams) : ret.teams[i].owner_id = o

\* the part of C18 that holds: one entry per pair of owner and team name,
\* counting the complete trades of that owner under that name, whatever the
\* roster ids
C18_OneEntryPerOwnerAndName ==
    call = "get_trade_counts_by_team" =>
        /\ \A i, j \in 1..Len(ret.teams) :
            (ret.teams[i].owner_id = ret.teams[j].owner_id
             /\ ret.teams[i].team_name = ret.teams[j].team_name) => i = j
        /\ \A i \in 1..Len(ret.teams) :
            ret.teams[i].total_trades =
                Cardinality(TradesTaken(ret.teams[i].owner_id, {ret.teams[i].team_name}))
        /\ \A o \in {"u1", "u2"}, n \in AllNames :
            TradesTaken(o, {n}) # {} =>
                \E i \in 1..Len(ret.teams) : ret.teams[i].owner_id = o /\ ret.teams[i].team_name = n

\* an exchange of chat or chat_v2 is under way or has just ended
InExchange == call = "exchange"

\* the ids of the tool calls in the order the model returned them
RequestedIds == [i \in 1..Len(arg.tool_calls) |-> arg.tool_calls[i].id]

\* the tool dispatches logged so far and the tool messages of this exchange,
\* each in the order it was made
DispatchedIds ==
    LET tools == SelectSeq(ret.log, LAMBDA e : e.kind = "tool")
    IN  [i \in 1..Len(tools) |-> tools[i].id]

\* the history entries added after the user message of this exchange
AddedEntries ==
    LET before == (IF arg.is_none THEN 1 ELSE Len(arg.conversation_history)) + 1
                  + (IF arg.planned THEN 1 ELSE 0)
    IN  SubSeq(ret.history, before + 1, Len(ret.history))

IsPrefix(s, t) == Len(s) <= Len(t) /\ s = SubSeq(t, 1, Len(s))

LlmCalls == Cardinality({i \in 1..Len(ret.log) : ret.log[i].kind = "llm"})

\* the state part of C19: dispatches and tool messages follow the returned
\* order, the tool messages stand after the tool-request message and before
\* the final answer, the second completion comes after every tool call, and
\* there are at most two completions
ExchangeInOrder ==
    InExchange =>
        /\ IsPrefix(DispatchedIds, RequestedIds)
        /\ LlmCalls <= 2
        /\ LlmCalls = 2 =>
            /\ ret.handled = Len(arg.tool_calls)
            /\ DispatchedIds = RequestedIds
            /\ ret.log[Len(ret.log)] = LlmEvent
        /\ arg.tool_calls # <<>> =>
            /\ AddedEntries # <<>> /\ AddedEntries[1] = ToolRequestMessage
            /\ \A i \in 1..ret.handled :
                /\ AddedEntries[i + 1].role = "tool"
                /\ AddedEntries[i + 1].tool_call_id = RequestedIds[i]
            /\ Len(AddedEntries) <= ret.handled + 2
            /\ Len(AddedEntries) = ret.handled + 2 =>
                /\ AddedEntries[ret.handled + 2] = AssistantMessage
                /\ ret.handled = Len(arg.tool_calls)
                /\ LlmCalls = 2

\* the step part of C19: a step handles at most one tool call
OneToolCallPerStep ==
    (InExchange /\ call' = "exchange" /\ arg' = arg) =>
        /\ ret'.handled \in {ret.handled, ret.handled + 1}
        /\ Len(ret'.log) <= Len(ret.log) + 1

FailingToolCall ==
    /\ InExchange /\ arg.version = "chat_v2"
    /\ \A i \in 1..Len(arg.tool_calls) : arg.tool_calls[i].arguments = "json"
    /\ \E i \in 1..Len(ret.log) :
        ret.log[i].kind = "tool" /\ ret.log[i].outcome \in {"KeyError", "raised"}

\* the tool messages of this exchange
ToolEntries == SelectSeq(AddedEntries, LAMBDA e : e.role = "tool")

ClaimedOrder == <<"leagues", "users", "rosters", "matchups", "transactions", "players">>

\* the state part of C21: the stages entered are the first ones of the
\* claimed order, a run returns only after all six, and the tables of the
\* stages not yet entered are as the run found them
SyncInOrder ==
    call = "full_sync" =>
        /\ IsPrefix(ret.entered, ClaimedOrder)
        /\ ret.status = "returned" => ret.entered = ClaimedOrder
        /\ \A i \in (Len(ret.entered) + 1)..Len(ClaimedOrder) :
            ret.db[ClaimedOrder[i]] = arg.db[ClaimedOrder[i]]

\* the step part of C21: a step enters one stage; once a stage has raised
\* nothing more is entered or written, the status stays "raised" until it
\* reaches the caller, and no step takes written rows away
NoRollback ==
    (call = "full_sync" /\ call' = "full_sync") =>
        /\ Len(ret'.entered) = Len(ret.entered) + 1
        /\ ret.status = "running"
        /\ \A t \in Range(Stages) : ret.db[t] = "new" => ret'.db[t] = "new"
        /\ ret'.status = "raised" =>
            \A t \in Range(Stages) \ {ret'.entered[Len(ret'.entered)]} : ret'.db[t] = ret.db[t]

\* C21: full_sync runs league, users, rosters, matchups, transactions,
\* players in that order; when a stage raises no later stage runs, the
\* exception reaches the caller, and what earlier stages wrote stays.
C21_StagesInOrder == []SyncInOrder /\ [][NoRollback]_vars

\* a run that raised in its fourth stage with the first three tables written
C21_Witness ==
    /\ call = "full_sync" /\ ret.status = "raised"
    /\ ret.entered = <<"leagues", "users", "rosters", "matchups">>
    /\ \A t \in {"leagues", "users", "rosters"} : arg.db[t] = "empty" /\ ret.db[t] = "new"
    /\ ret.db["matchups"] = arg.db["matchups"]

\* the call about to be made is the first since a rejection and comes at
\* least `extra` seconds later than the rejection announced
RetryAfterWaiting(extra) ==
    /\ call = "rate_limit" /\ call' = "rate_limit"
    /\ ret'.waited = 0 /\ ret'.t = ret.t
    /\ ~ret.admitted
    /\ ret.waited >= (ret.retry_after + extra) * TicksPerSecond

\* C22: a client that was rejected with 429, makes no other request on the
\* route and retries after at least the announced Retry-After seconds is
\* admitted.
C22_RetryAfterHonoured == [][RetryAfterWaiting(0) => ret'.admitted]_vars

\* the part of C22 that holds: the retry is admitted after one second more
\* than announced
C22_RetryAfterPlusOne == [][RetryAfterWaiting(1) => ret'.admitted]_vars

\* the limit of a route
MaxRequestsOf(prefix) == IF prefix = "chat" THEN ChatMaxRequests ELSE ResetMaxRequests

\* the state part of C23: no bucket holds more timestamps than its limit
BucketsBounded ==
    \A k \in DOMAIN rate_limit_storage : Len(rate_limit_storage[k]) <= MaxRequestsOf(k[1])

\* the step part of C23: a rejected request leaves in its bucket only what
\* has not expired and does not reach the handler, an admitted request adds
\* its own timestamp to that, and every other bucket is untouched
OwnBucketOnly ==
    Request =>
        LET own == RateKey(last'.route, last'.client)
            kept == Prune(rate_limit_storage[own], now - WindowTicks(WindowSeconds))
        IN  /\ \A k \in DOMAIN rate_limit_storage \ {own} :
                rate_limit_storage'[k] = rate_limit_storage[k]
            /\ IF last'.response.status = 429
               THEN /\ rate_limit_storage'[own] = kept
                    /\ last'.gates = <<"rate_limit">>
                    /\ last'.assistant = "not called"
                    /\ conversations' = conversations
               ELSE rate_limit_storage'[own] = Append(kept, now)

\* C23: after any sequence of requests every bucket holds at most
\* max_requests timestamps; a request rejected with 429 adds none and does
\* not run the handler; an admitted request adds exactly one, to the bucket
\* of its own key and to no other.
C23_BucketsBounded == []BucketsBounded /\ [][OwnBucketOnly]_vars

\* a request was just rejected while both buckets of its client are full
C23_Witness ==
    /\ last.response.status = 429
    /\ \A k \in DOMAIN rate_limit_storage : Len(rate_limit_storage[k]) = MaxRequestsOf(k[1])

\* the stored history of a session, a fresh one when nothing is stored
StoredOrFresh(store, sid) == IF sid \in DOMAIN store THEN store[sid] ELSE <<SystemMessage>>

\* the step neither adds, removes nor changes the history of the session
Untouched(sid) ==
    /\ (sid \in DOMAIN conversations') <=> (sid \in DOMAIN conversations)
    /\ sid \in DOMAIN conversations => conversations'[sid] = conversations[sid]

\* the step appended one exchange to the history of the session: a user
\* message first, the answer last
AppendedExchange(sid) ==
    /\ sid \in DOMAIN conversations'
    /\ LET before == StoredOrFresh(conversations, sid)
           after == conversations'[sid]
       IN  /\ Len(after) >= Len(before) + 2
           /\ IsPrefix(before, after)
           /\ after[Len(before) + 1].role = "user"
           /\ after[Len(after)] = AssistantMessage

SuccessfulChatOn(sid) ==
    last'.route = "chat" /\ last'.response.status = 200 /\ last'.response.session_id = sid

SuccessfulResetOn(sid) ==
    last'.route = "reset" /\ last'.response.status = 200 /\ last'.response.session_id = sid

\* C24: the history stored for a session is the system prompt followed by
\* exactly the messages of the successful exchanges on that session since
\* its last reset: a successful exchange appends its messages, a reset
\* removes the history, and no other request changes it.
C24_OnlySuccessfulExchanges ==
    [][Request =>
        \A sid \in (DOMAIN conversations) \cup (DOMAIN conversations') :
            IF SuccessfulChatOn(sid) THEN AppendedExchange(sid)
            ELSE IF SuccessfulResetOn(sid) THEN sid \notin DOMAIN conversations'
            ELSE Untouched(sid)
    ]_vars

\* the part of C24 that holds: a request changes no history but that of the
\* session it names, and what a chat request leaves there starts with what
\* was there before
C24_OwnSessionAppendOnly ==
    [][Request =>
        \A sid \in (DOMAIN conversations) \cup (DOMAIN conversations') :
            IF SuccessfulChatOn(sid) THEN AppendedExchange(sid)
            ELSE IF SuccessfulResetOn(sid) THEN sid \notin DOMAIN conversations'
            ELSE IF last'.route = "chat" /\ last'.body_ok /\ ChatSession(last'.session) = sid
            THEN /\ sid \in DOMAIN conversations => sid \in DOMAIN conversations'
                 /\ sid \in DOMAIN conversations' =>
                        IsPrefix(StoredOrFresh(conversations, sid), conversations'[sid])
            ELSE Untouched(sid)
    ]_vars

\* C29: a chat request that fails because the assistant raises leaves the
\* conversation store exactly as it was before the request.
C29_FailedChatLeavesStore ==
    [][(Request /\ last'.route = "chat" /\ last'.assistant = "raised")
        => conversations' = conversations]_vars

\* the part of C29 that holds: such a request on a session that is not
\* stored leaves the store as it was
C29_FailedFirstChatLeavesStore ==
    [][(Request /\ last'.route = "chat" /\ last'.assistant = "raised"
            /\ ChatSession(last'.session) \notin DOMAIN conversations)
        => conversations' = conversations]_vars

\* validate_chat_request was called with an object whose message is a
\* string, padded or not, and no session id
PaddedMessage ==
    /\ call = "validate_chat_request"
    /\ arg.kind = "object"
    /\ arg.message.kind = "str"
    /\ arg.session_id.kind = "absent"

\* C25: the chat message length bound is applied after trimming: a message
\* is accepted exactly when its length without leading and trailing
\* whitespace is between 1 and 5000, and the handler gets the trimmed
\* message.
C25_BoundAfterTrimming ==
    PaddedMessage =>
        /\ ret.ok <=> (1 <= arg.message.len /\ arg.message.len <= 5000)
        /\ ret.ok => ret.message = Strip(arg.message)

\* the part of C25 that holds: a message is accepted exactly when it has a
\* character that is not whitespace and its length before trimming is at
\* most 5000, and the handler gets the trimmed message
C25_BoundBeforeTrimming ==
    PaddedMessage =>
        /\ ret.ok <=> (1 <= arg.message.len /\ PyLen(arg.message) <= 5000)
        /\ ret.ok => ret.message = Strip(arg.message)

\* the roster ids of the teams of a rendered trade whose list holds the item
TeamsListing(teams, list, item) ==
    {teams[i].roster_id : i \in {j \in DOMAIN teams : item \in Range(teams[j][list])}}

\* how often the item stands in the lists of the teams of a rendered trade
TimesListed(teams, list, item) ==
    Cardinality({c \in (DOMAIN teams) \X (1..(MaxPicks + 2)) :
                    /\ c[2] <= Len(teams[c[1]][list])
                    /\ teams[c[1]][list][c[2]] = item})

\* the giver C26 names for a pick among the teams of a rendered trade
ClaimedGiver(teams, pick) ==
    LET others == SelectSeq([i \in DOMAIN teams |-> teams[i].roster_id],
                            LAMBDA rid : rid # pick.owner_id)
    IN  IF Len(teams) = 2 THEN others[1]
        ELSE IF pick.roster_id \in Range(others) THEN pick.roster_id
        ELSE others[1]

\* C26: in a rendered trade with at least two teams every transferred draft
\* pick is in the received list of its new owner and in the gave-up list of
\* exactly one other team, never in that of its receiver: the sole other
\* team of a two-team trade, else the pick's original owner when it takes
\* part and is not the receiver, else the first team that is not the receiver.
C26_PickDirection ==
    call \in {"get_recent_trades", "get_player_trade_history", "get_team_trade_history"} =>
        \A k \in DOMAIN ret.trades :
            LET teams == ret.trades[k].teams
            IN  Len(teams) >= 2 =>
                    \A i \in DOMAIN arg.draft_picks :
                        arg.draft_picks[i].owner_id # 0 =>
                            /\ TeamsListing(teams, "received", PickItem(i))
                                    = {arg.draft_picks[i].owner_id}
                            /\ TimesListed(teams, "received", PickItem(i)) = 1
                            /\ TeamsListing(teams, "gave_up", PickItem(i))
                                    = {ClaimedGiver(teams, arg.draft_picks[i])}
                            /\ TimesListed(teams, "gave_up", PickItem(i)) = 1
                            /\ ClaimedGiver(teams, arg.draft_picks[i]) # arg.draft_picks[i].owner_id

\* a rendered three-team trade whose pick is given up by its original owner,
\* who is not the first team that is not the receiver
C26_Witness ==
    /\ call = "get_recent_trades"
    /\ Len(ret.trades) = 1
    /\ Len(ret.trades[1].teams) = 3
    /\ \E i \in DOMAIN arg.draft_picks :
            LET pick == arg.draft_picks[i]
                teams == ret.trades[1].teams
            IN  /\ pick.owner_id # 0
                /\ TeamsListing(teams, "gave_up", PickItem(i)) = {pick.roster_id}
                /\ \E j \in DOMAIN teams :
                        /\ teams[j].roster_id \notin {pick.owner_id, pick.roster_id}
                        /\ \A h \in 1..(j - 1) : teams[h].roster_id = pick.owner_id

\* the requests admitted in the window: the unexpired ones the bucket held
\* before, and the workers admitted
AdmittedInWindow ==
    Len(Prune(arg.bucket, Cutoff)) + Cardinality({w \in Workers : ret.pc[w] = "admitted"})

\* what C27 says of a state of the concurrent calls
WithinLimitNothingLost ==
    /\ AdmittedInWindow <= arg.max_requests
    /\ \A w \in Workers : ret.pc[w] = "admitted" => w + 1 \in Range(ret.bucket)

\* C27: when one client's requests to one route are handled concurrently,
\* with any interleaving of prune, count check and append, the requests
\* admitted within a window never exceed max_requests and no admitted
\* request's timestamp is lost from the bucket.
C27_ConcurrentLimit ==
    call = "rate_limit_concurrently" => WithinLimitNothingLost

\* the part of C27 that holds: the same, as long as no two workers were
\* inside the wrapper together
C27_OneAtATime ==
    (call = "rate_limit_concurrently" /\ ~ret.overlapped) => WithinLimitNothingLost

\* both concurrent chat requests returned success
BothSucceeded ==
    call = "chat_endpoint_concurrently" /\ \A r \in ChatRequests : ret.pc[r] = "succeeded"

\* what the two exchanges store when request `first` runs to its end before
\* the other begins
OneAfterTheOther(first) ==
    (IF arg.existing THEN StoredBefore ELSE <<SystemMessage>>)
    \o <<AskedBy(first), AnswerTo(first), AskedBy(3 - first), AnswerTo(3 - first)>>

StoredAsInSomeOrder ==
    ret.heap[ret.stored] \in {OneAfterTheOther(1), OneAfterTheOther(2)}

\* C28: chat requests for one session id are not serialized: two concurrent
\* requests can both succeed and leave a stored history that no order of the
\* two exchanges would have stored.  Whenever both succeed, the history is
\* that of one of the two orders exactly when no request read a missing
\* entry while the other was between its read and its write, and none
\* added its user message to the shared list while the other awaited its answer.
C28_NotSerialized == BothSucceeded => (ret.raced <=> ~StoredAsInSomeOrder)

\* both requests succeeded on a new session and the stored history holds
\* the messages of one exchange only
C28_Witness ==
    /\ BothSucceeded /\ ~arg.existing
    /\ ~StoredAsInSomeOrder
    /\ \E r \in ChatRequests : ret.heap[ret.stored] = <<SystemMessage, AskedBy(r), AnswerTo(r)>>

\* both requests succeeded on a stored session and their messages alternate
C28_Interleaved ==
    /\ BothSucceeded /\ arg.existing
    /\ ret.heap[ret.stored] = StoredBefore \o <<AskedBy(1), AskedBy(2), AnswerTo(1), AnswerTo(2)>>

\* this request is a reset the handler ran (the limiter let it through),
\* sent with the session_id value of the successful chat just before it
ResetAfterChatWith(inputs) ==
    /\ Request
    /\ last.route = "chat" /\ last.response.status = 200
    /\ last'.route = "reset" /\ last'.response.status # 429
    /\ last'.session = last.session
    /\ last.session \in inputs

\* the reset cleared the history the chat stored and reports the chat's session
ClearsWhatChatStored ==
    LET stored == last.response.session_id
    IN  /\ last'.response.status = 200
        /\ last'.response.session_id = stored
        /\ stored \in DOMAIN conversations
        /\ last'.response.messages_cleared = Len(conversations[stored])
        /\ conversations' = Remove(conversations, stored)

\* C30: chat and reset resolve a client-supplied session id to the same
\* stored session: for every session_id value chat accepts (no key, null,
\* the empty string, a string with whitespace around it), a reset sent with
\* the same value clears exactly the history chat stored under it and
\* reports the session id chat stored it under.
C30_SameSession == [][ResetAfterChatWith(AcceptedSessionInputs) => ClearsWhatChatStored]_vars

\* the part that holds: a missing session_id key, and a non-empty string
\* with no whitespace around it
C30_SameSessionPlainOrAbsent == [][ResetAfterChatWith({Absent, T1}) => ClearsWhatChatStored]_vars

====
